---------------------------- MODULE Spec2Model ----------------------------
(***************************************************************************)
(* A model of the PlayerLocalData.arkprofile codec                         *)
(* (src/arkplayerlocaldatafixer/asa.py) and of its structural verifier     *)
(* (src/asa_tool_localprofile.py).                                         *)
(*                                                                         *)
(* A file is a sequence of bytes (0..255).  A Python str is the sequence   *)
(* of its code points, a Python bytes object the sequence of its bytes.    *)
(* Python values, whose type the code tests with isinstance, are tagged    *)
(* records [t |-> "int" | "str" | "bytes" | "none" | "dict" | "list" |     *)
(* "absent", v |-> ...]; "absent" stands for a key that a dict lacks.      *)
(* A property dict is the sequence of its items in insertion order, each   *)
(* item [name, items] holding the entries stored under that name (one      *)
(* entry, or the list _merge_prop builds for a repeated name).             *)
(*                                                                         *)
(* Integers read from bytes are exact below Sat = 2^31 - 2^16 and saturate  *)
(* there (TLC's integers are 32 bit): the code only compares larger values *)
(* with offsets and lengths, and the files drawn in Init hold none.        *)
(***************************************************************************)
EXTENDS Integers, Sequences, FiniteSets, TLC

Max(a, b) == IF a >= b THEN a ELSE b

Min(a, b) == IF a <= b THEN a ELSE b

(***************************************************************************)
(* String literals of the source, as ASCII codes.                          *)
(***************************************************************************)
S_None == <<78, 111, 110, 101>>

S_StructProperty == <<83, 116, 114, 117, 99, 116, 80, 114, 111, 112, 101, 114, 116, 121>>

S_ArrayProperty == <<65, 114, 114, 97, 121, 80, 114, 111, 112, 101, 114, 116, 121>>

S_MapProperty == <<77, 97, 112, 80, 114, 111, 112, 101, 114, 116, 121>>

S_SetProperty == <<83, 101, 116, 80, 114, 111, 112, 101, 114, 116, 121>>

S_BoolProperty == <<66, 111, 111, 108, 80, 114, 111, 112, 101, 114, 116, 121>>

S_IntProperty == <<73, 110, 116, 80, 114, 111, 112, 101, 114, 116, 121>>

S_UInt32Property == <<85, 73, 110, 116, 51, 50, 80, 114, 111, 112, 101, 114, 116, 121>>

S_FloatProperty == <<70, 108, 111, 97, 116, 80, 114, 111, 112, 101, 114, 116, 121>>

S_DoubleProperty == <<68, 111, 117, 98, 108, 101, 80, 114, 111, 112, 101, 114, 116, 121>>

S_Int64Property == <<73, 110, 116, 54, 52, 80, 114, 111, 112, 101, 114, 116, 121>>

S_UInt64Property == <<85, 73, 110, 116, 54, 52, 80, 114, 111, 112, 101, 114, 116, 121>>

S_Int16Property == <<73, 110, 116, 49, 54, 80, 114, 111, 112, 101, 114, 116, 121>>

S_UInt16Property == <<85, 73, 110, 116, 49, 54, 80, 114, 111, 112, 101, 114, 116, 121>>

S_ByteProperty == <<66, 121, 116, 101, 80, 114, 111, 112, 101, 114, 116, 121>>

S_StrProperty == <<83, 116, 114, 80, 114, 111, 112, 101, 114, 116, 121>>

S_NameProperty == <<78, 97, 109, 101, 80, 114, 111, 112, 101, 114, 116, 121>>

S_ObjectProperty == <<79, 98, 106, 101, 99, 116, 80, 114, 111, 112, 101, 114, 116, 121>>

S_SoftObjectProperty == <<83, 111, 102, 116, 79, 98, 106, 101, 99, 116, 80, 114, 111, 112, 101, 114, 116, 121>>

(***************************************************************************)
(* Python values.                                                          *)
(***************************************************************************)
VAbsent == [t |-> "absent", v |-> <<>>]

VNone == [t |-> "none", v |-> <<>>]

VInt(n) == [t |-> "int", v |-> n]

VStr(s) == [t |-> "str", v |-> s]

VBytes(x) == [t |-> "bytes", v |-> x]

VList(l) == [t |-> "list", v |-> l]

VDict(d) == [t |-> "dict", v |-> d]

\* Python truthiness of a value (`if not s`, `value or ''`, `if tag`).
Truthy(x) ==
    CASE x.t = "int" -> x.v # 0
      [] x.t \in {"str", "bytes", "list"} -> Len(x.v) > 0
      [] x.t = "dict" -> TRUE
      [] OTHER -> FALSE

(***************************************************************************)
(* Little-endian integers (struct.pack / struct.unpack, '<' formats).      *)
(***************************************************************************)
\* The saturation point of integers read from bytes.
Sat == 2 ^ 30 + (2 ^ 30 - 2 ^ 16)

RECURSIVE UIntOf(_)
\* The unsigned value of little-endian bytes x, saturating at Sat.
UIntOf(x) ==
    IF Len(x) = 0 THEN 0
    ELSE LET rest == UIntOf(Tail(x))
         IN IF rest > (Sat - x[1]) \div 256 THEN Sat ELSE x[1] + 256 * rest

\* The two's complement value of little-endian bytes x, saturating at +-Sat.
SIntOf(x) ==
    IF Len(x) > 0 /\ x[Len(x)] >= 128
    THEN -Min(Sat - 1, UIntOf([i \in 1..Len(x) |-> 255 - x[i]])) - 1
    ELSE UIntOf(x)

RECURSIVE LE(_, _)
\* struct.pack of an unsigned n >= 0 in w bytes.
LE(n, w) == IF w = 0 THEN <<>> ELSE <<n % 256>> \o LE(n \div 256, w - 1)

\* struct.pack of a signed n in w bytes (two's complement).
SLE(n, w) == IF n >= 0 THEN LE(n, w) ELSE [i \in 1..w |-> 255 - LE(-(n + 1), w)[i]]

Zeros(n) == [i \in 1..Max(0, n) |-> 0]

(***************************************************************************)
(* The byte stream being read: b is the buffer, s the reader's state       *)
(* [ok, pos, hi, v, got]: ok is FALSE once a read has raised (every later  *)
(* read is then skipped, as the exception unwinds); pos is tell(); hi is   *)
(* one past the highest offset read so far; v is the value last read; got  *)
(* is a stack of frames, the top one holding the local variables the       *)
(* function being executed has assigned from its reads.                    *)
(***************************************************************************)
Stream(pos) == [ok |-> TRUE, pos |-> pos, hi |-> 0, v |-> 0, got |-> <<>>]

\* Entering a function: an empty frame for its local variables.
Fresh(s) == [s EXCEPT !.got = <<<<>>>> \o @]

\* The assignment `field = val` to a local variable.
Put(r, field, val) == [r EXCEPT !.got[1] = (field :> val) @@ @]

\* The assignment `field = <the value just read>`.
Keep(r, field) == Put(r, field, r.v)

\* Leaving a function: v becomes the record of its local variables.
Got(r) == [r EXCEPT !.v = Head(r.got), !.got = Tail(@)]

\* base_stream.read(n): the next n bytes, fewer at the end of the file, all
\* that remain when n = -1.
Take(b, pos, n) ==
    LET avail == IF pos >= Len(b) \/ pos < 0 THEN 0 ELSE Len(b) - pos
        cnt == IF n < 0 \/ n > avail THEN avail ELSE n
    IN SubSeq(b, pos + 1, pos + cnt)

\* The stream after the bytes x were read from it.
Consumed(s, x) ==
    [s EXCEPT !.pos = @ + Len(x),
              !.hi = IF Len(x) > 0 THEN Max(@, s.pos + Len(x)) ELSE @,
              !.v = x]

\* BinaryStream.readBytes on the file _load opened: read raises ValueError
\* for a length below -1.
readBytes(b, s, n) ==
    IF ~s.ok THEN [s EXCEPT !.v = <<>>]
    ELSE IF n < -1 THEN [s EXCEPT !.ok = FALSE, !.v = <<>>]
    ELSE Consumed(s, Take(b, s.pos, n))

\* struct.unpack of the w bytes read into r.v: raises on fewer than w bytes.
Unpacked(r, w, signed) ==
    IF Len(r.v) < w THEN [r EXCEPT !.ok = FALSE, !.v = 0]
    ELSE [r EXCEPT !.v = IF signed THEN SIntOf(@) ELSE UIntOf(@)]

\* BinaryStream.unpack.
unpack(b, s, w, signed) ==
    IF ~s.ok THEN [s EXCEPT !.v = 0] ELSE Unpacked(readBytes(b, s, w), w, signed)

readInt32(b, s) == unpack(b, s, 4, TRUE)

readUInt32(b, s) == unpack(b, s, 4, FALSE)

readUChar(b, s) == unpack(b, s, 1, FALSE)

readChar(b, s) == unpack(b, s, 1, TRUE)

\* stream.base_stream.seek(p): raises on a negative offset.
seek(s, p) ==
    IF ~s.ok THEN s
    ELSE IF p < 0 THEN [s EXCEPT !.ok = FALSE]
    ELSE [s EXCEPT !.pos = p]

\* if stream.tell() != p: stream.base_stream.seek(p).
SeekTo(s, p) == IF s.pos # p THEN seek(s, p) ELSE s

\* bytes.decode('ascii', errors='replace'): a byte above 127 becomes U+FFFD.
DecodeAscii(x) == [i \in 1..Len(x) |-> IF x[i] < 128 THEN x[i] ELSE 65533]

\* stream.readByte() with its result dropped: v stays the value read before.
dropByte(b, s) == [readBytes(b, s, 1) EXCEPT !.v = s.v]

\* _safe_read_nt_string after the length prefix: the raw bytes and the
\* terminator of a non-zero length.
NtStringBody(b, length) ==
    IF ~length.ok \/ length.v = 0 THEN [length EXCEPT !.v = <<>>]
    ELSE [dropByte(b, readBytes(b, length, length.v - 1)) EXCEPT !.v = DecodeAscii(@)]

_safe_read_nt_string(b, s) == NtStringBody(b, readUInt32(b, s))

\* b = stream.readByte(); b[0] raises IndexError at the end of the buffer.
_read_byte_val(b, s) == unpack(b, s, 1, FALSE)

(***************************************************************************)
(* Low-level ASA property reading helpers.                                 *)
(***************************************************************************)
\* The type of a pair: not read after the name 'None'.
PairType(b, name) ==
    IF name.v = S_None THEN [name EXCEPT !.v = <<>>] ELSE _safe_read_nt_string(b, name)

\* v = [name, type_name].
_read_asa_pair(b, s) ==
    Got(Keep(PairType(b, Keep(_safe_read_nt_string(b, Fresh(s)), "name")), "type_name"))

\* v = [struct_name, package, index, data_size, tag].
_read_asa_struct_header(b, s) ==
    LET flag1 == readInt32(b, Fresh(s))
        struct_name == Keep(_safe_read_nt_string(b, flag1), "struct_name")
        flag2 == readInt32(b, struct_name)
        package == Keep(_safe_read_nt_string(b, flag2), "package")
        index == Keep(readInt32(b, package), "index")
        data_size == Keep(readInt32(b, index), "data_size")
        tag == Keep(_read_byte_val(b, data_size), "tag")
    IN Got(tag)

\* The struct name and package of an array header: None unless the child
\* type is StructProperty.
ArrayStructNames(b, child_type) ==
    IF child_type.v = S_StructProperty
    THEN LET flag2 == readInt32(b, child_type)
             s_name == Keep([_safe_read_nt_string(b, flag2) EXCEPT !.v = VStr(@)],
                            "s_name")
             flag3 == readInt32(b, s_name)
         IN Keep([_safe_read_nt_string(b, flag3) EXCEPT !.v = VStr(@)], "package")
    ELSE Put(Put(child_type, "s_name", VNone), "package", VNone)

\* v = [child_type, s_name, package, index, data_size, tag, length].
_read_asa_array_header(b, s) ==
    LET flag == readInt32(b, Fresh(s))
        child_type == Keep(_safe_read_nt_string(b, flag), "child_type")
        names == ArrayStructNames(b, child_type)
        index == Keep(readInt32(b, names), "index")
        data_size == Keep(readInt32(b, index), "data_size")
        tag == Keep(_read_byte_val(b, data_size), "tag")
        length == Keep(readInt32(b, tag), "length")
    IN Got(length)

\* The extra int32 of a simple header: read after a non-zero tag only.
SimpleExtra(b, tag) ==
    IF tag.v # 0 THEN Keep([readInt32(b, tag) EXCEPT !.v = VInt(@)], "extra")
    ELSE Put(tag, "extra", VNone)

\* v = [index, size, tag, extra].
_read_asa_simple_header(b, s) ==
    LET index == Keep(readInt32(b, Fresh(s)), "index")
        size == Keep(readInt32(b, index), "size")
        tag == Keep(_read_byte_val(b, size), "tag")
    IN Got(SimpleExtra(b, tag))

(***************************************************************************)
(* ASA property value readers.                                             *)
(***************************************************************************)
\* _SIMPLE_READERS / _SIMPLE_WRITERS: the fixed-width types and their widths.
FixedTypes ==
    {S_IntProperty, S_UInt32Property, S_FloatProperty, S_DoubleProperty,
     S_Int64Property, S_UInt64Property, S_Int16Property, S_UInt16Property}

FixedWidth(t) ==
    CASE t \in {S_IntProperty, S_UInt32Property, S_FloatProperty} -> 4
      [] t \in {S_DoubleProperty, S_Int64Property, S_UInt64Property} -> 8
      [] OTHER -> 2

\* The signed formats; a float is carried as its bit pattern.
FixedSigned(t) == t \in {S_IntProperty, S_Int64Property, S_Int16Property}

RECURSIVE Utf8Decode(_)
\* bytes.decode('utf-8') of one- and two-byte sequences: [ok, v]; ok is FALSE
\* where decode raises UnicodeDecodeError.  Longer sequences are not modelled
\* and count as errors.
Utf8Decode(x) ==
    IF Len(x) = 0 THEN [ok |-> TRUE, v |-> <<>>]
    ELSE IF x[1] < 128
    THEN [Utf8Decode(Tail(x)) EXCEPT !.v = <<x[1]>> \o @]
    ELSE IF x[1] >= 194 /\ x[1] <= 223 /\ Len(x) >= 2 /\ x[2] >= 128 /\ x[2] <= 191
    THEN [Utf8Decode(SubSeq(x, 3, Len(x)))
             EXCEPT !.v = <<(x[1] - 192) * 64 + (x[2] - 128)>> \o @]
    ELSE [ok |-> FALSE, v |-> <<>>]

\* The path of an ObjectProperty value of n >= 8 bytes with the given flag
\* and string length, the raw bytes where it is not one.
ObjectPath(raw, flag, slen, path) ==
    IF flag >= 0 /\ 0 < slen /\ slen < Len(raw) /\ 8 + slen <= Len(raw) /\ path.ok
    THEN VStr(path.v)
    ELSE VBytes(raw)

\* The classification of the bytes of an ObjectProperty value.
ObjectValue(raw) ==
    IF raw = <<255, 255, 255, 255>> THEN VNone
    ELSE IF raw = <<0, 0, 0, 0, 255, 255, 255, 255>> THEN VNone
    ELSE IF Len(raw) = 4 THEN VInt(SIntOf(raw))
    ELSE IF Len(raw) >= 8
    THEN ObjectPath(raw, SIntOf(SubSeq(raw, 1, 4)), SIntOf(SubSeq(raw, 5, 8)),
                    Utf8Decode(SubSeq(raw, 9, 8 + SIntOf(SubSeq(raw, 5, 8)) - 1)))
    ELSE VBytes(raw)

\* v = the three strings of an FSoftObjectPath.
ReadSoftObject(b, s) ==
    LET package_path == Keep(_safe_read_nt_string(b, Fresh(s)), "package")
        asset_name == Keep(_safe_read_nt_string(b, package_path), "asset")
        sub_path == Keep(_safe_read_nt_string(b, asset_name), "sub_path")
    IN [Got(sub_path) EXCEPT !.v = [package |-> @.package, asset |-> @.asset,
                                    sub_path |-> @.sub_path]]

_read_asa_property_value(b, s, prop_type, size) ==
    IF prop_type \in FixedTypes
    THEN [unpack(b, s, FixedWidth(prop_type), FixedSigned(prop_type))
             EXCEPT !.v = VInt(@)]
    ELSE IF prop_type = S_BoolProperty
    THEN IF size > 0
         THEN [readChar(b, s) EXCEPT !.v = VInt(IF @ # 0 THEN 1 ELSE 0)]
         ELSE [s EXCEPT !.v = VInt(0)]
    ELSE IF prop_type \in {S_StrProperty, S_NameProperty}
    THEN IF size > 0
         THEN [_safe_read_nt_string(b, s) EXCEPT !.v = VStr(@)]
         ELSE [s EXCEPT !.v = VStr(<<>>)]
    ELSE IF prop_type = S_ByteProperty
    THEN IF size = 1
         THEN [_read_byte_val(b, s) EXCEPT !.v = VInt(@)]
         ELSE IF size > 0
         THEN [readBytes(b, s, size) EXCEPT !.v = VBytes(@)]
         ELSE [s EXCEPT !.v = VInt(0)]
    ELSE IF prop_type = S_ObjectProperty
    THEN [readBytes(b, s, size) EXCEPT !.v = ObjectValue(@)]
    ELSE IF prop_type = S_SoftObjectProperty
    THEN [ReadSoftObject(b, s) EXCEPT !.v = VDict(@)]
    ELSE [readBytes(b, s, size) EXCEPT !.v = VBytes(@)]

(***************************************************************************)
(* Recursive ASA struct/property parser.                                   *)
(*                                                                         *)
(* A parse returns [props, pos, hi, over, hang]: the property dict, the    *)
(* stream position and highest offset read when it returns, whether some   *)
(* set bounded by a data_end (this one or a nested one) read a byte at an  *)
(* offset >= its data_end, and whether the call never returns.  The `while *)
(* True` loop of parse_asa_properties is a function of the stream position *)
(* alone (the buffer and data_end are fixed), so it loops forever exactly  *)
(* when an iteration starts at a position an earlier one started at: seen  *)
(* holds those positions.                                                  *)
(***************************************************************************)
\* Handle duplicate property names (indexed properties).
_merge_prop(props, name, entry) ==
    IF \E i \in 1..Len(props) : props[i].name = name
    THEN [i \in 1..Len(props) |->
            IF props[i].name = name
            THEN [props[i] EXCEPT !.items = Append(@, entry)]
            ELSE props[i]]
    ELSE Append(props, [name |-> name, items |-> <<entry>>])

Hang == [props |-> <<>>, pos |-> 0, hi |-> 0, over |-> FALSE, hang |-> TRUE, ok |-> FALSE]

\* stream.readBytes(n), n being the local variable field.
readKept(b, s, field) == readBytes(b, s, Head(s.got)[field])

\* _read_asa_map_property: v = the entry.
_read_asa_map_property(b, s) ==
    LET flag_k == readInt32(b, Fresh(s))
        key_type == Keep(_safe_read_nt_string(b, flag_k), "key_type")
        flag_v == readInt32(b, key_type)
        val_type == Keep(_safe_read_nt_string(b, flag_v), "val_type")
        index == Keep(readInt32(b, val_type), "index")
        size == Keep(readInt32(b, index), "size")
        tag == Keep(_read_byte_val(b, size), "tag")
        raw == Keep(readKept(b, tag, "size"), "raw")
    IN [Got(raw) EXCEPT !.v = [_type |-> S_MapProperty, _key_type |-> @.key_type,
                               _val_type |-> @.val_type, _index |-> @.index,
                               _size |-> @.size, _tag |-> @.tag,
                               raw |-> VBytes(@.raw)]]

\* The list after one more read: the value of r appended to acc, unless the
\* read raised.
Appended(r, acc) == [r EXCEPT !.v = IF r.ok THEN Append(acc, r.v) ELSE acc]

RECURSIVE ReadNames(_, _, _)
\* [_safe_read_nt_string(stream) for _ in range(count)], s.v being the list
\* so far.
ReadNames(b, s, count) ==
    IF count <= 0 \/ ~s.ok THEN s
    ELSE ReadNames(b, Appended(_safe_read_nt_string(b, s), s.v), count - 1)

\* The names of a NameProperty set, after their count was read.
ReadCounted(b, count) == ReadNames(b, [count EXCEPT !.v = <<>>], count.v)

\* The entry of a set read as raw bytes, from wherever the stream is.
SetRaw(b, s) ==
    [Got(Keep(readKept(b, s, "size"), "raw"))
        EXCEPT !.v = [_type |-> S_SetProperty, _elem_type |-> @.elem_type,
                      _index |-> @.index, _size |-> @.size, _tag |-> @.tag,
                      value |-> VAbsent, raw |-> VBytes(@.raw)]]

\* The entry of a NameProperty set; a failed read of the names falls through
\* to the raw read.
SetNames(b, names) ==
    IF names.ok
    THEN [Got(Keep(names, "value"))
             EXCEPT !.v = [_type |-> S_SetProperty, _elem_type |-> @.elem_type,
                           _index |-> @.index, _size |-> @.size, _tag |-> @.tag,
                           value |-> VList(@.value), raw |-> VAbsent]]
    ELSE SetRaw(b, [names EXCEPT !.ok = TRUE])

\* _read_asa_set_property after its header.
SetValue(b, tag) ==
    IF ~tag.ok THEN Got(tag)
    ELSE IF Head(tag.got).elem_type = S_NameProperty
    THEN SetNames(b, ReadCounted(b, readInt32(b, readInt32(b, tag))))
    ELSE SetRaw(b, tag)

\* _read_asa_set_property: v = the entry.
_read_asa_set_property(b, s) ==
    LET flag == readInt32(b, Fresh(s))
        elem_type == Keep(_safe_read_nt_string(b, flag), "elem_type")
        index == Keep(readInt32(b, elem_type), "index")
        size == Keep(readInt32(b, index), "size")
        tag == Keep(_read_byte_val(b, size), "tag")
    IN SetValue(b, tag)

\* reader_map of _read_asa_array_elements: the fixed-width child types.
ArrayFixedTypes == FixedTypes \cup {S_ByteProperty, S_BoolProperty}

ArrayFixedWidth(t) == IF t \in {S_ByteProperty, S_BoolProperty} THEN 1 ELSE FixedWidth(t)

RECURSIVE ReadFixedElems(_, _, _, _)
\* [reader_map[child_type]() for _ in range(length)], s.v being the list so far.
ReadFixedElems(b, s, t, n) ==
    IF n <= 0 \/ ~s.ok THEN s
    ELSE ReadFixedElems(b, Appended(unpack(b, s, ArrayFixedWidth(t), FixedSigned(t)), s.v),
                        t, n - 1)

RECURSIVE ReadObjectElems(_, _, _)
\* The ObjectProperty elements: a prefix int32, then the string.
ReadObjectElems(b, s, n) ==
    IF n <= 0 \/ ~s.ok THEN s
    ELSE ReadObjectElems(b, Appended(_safe_read_nt_string(b, readInt32(b, s)), s.v), n - 1)

RECURSIVE ReadSoftElems(_, _, _)
\* The SoftObjectProperty elements read before the first failure; the state
\* is that of the failure.
ReadSoftElems(b, s, n) ==
    IF n <= 0 \/ ~s.ok THEN s
    ELSE ReadSoftElems(b, Appended(ReadSoftObject(b, s), s.v), n - 1)

\* except Exception of the SoftObjectProperty branch: the rest of the data
\* is skipped.
SoftRecovered(r, data_end) ==
    IF r.ok THEN r
    ELSE IF data_end - r.pos > 0 THEN [r EXCEPT !.ok = TRUE, !.pos = data_end]
    ELSE [r EXCEPT !.ok = TRUE]

\* The non-struct branches of _read_asa_array_elements: v = the elements.
ReadPlainElems(b, s, child_type, data_end, length) ==
    IF child_type \in ArrayFixedTypes
    THEN [ReadFixedElems(b, [s EXCEPT !.v = <<>>], child_type, length)
             EXCEPT !.v = VList(@)]
    ELSE IF child_type \in {S_StrProperty, S_NameProperty}
    THEN [ReadNames(b, [s EXCEPT !.v = <<>>], length) EXCEPT !.v = VList(@)]
    ELSE IF child_type = S_ObjectProperty
    THEN [ReadObjectElems(b, [s EXCEPT !.v = <<>>], length) EXCEPT !.v = VList(@)]
    ELSE IF child_type = S_SoftObjectProperty
    THEN [SoftRecovered(ReadSoftElems(b, [s EXCEPT !.v = <<>>], length), data_end)
             EXCEPT !.v = VList(@)]
    ELSE IF data_end - s.pos > 0
    THEN [readBytes(b, s, data_end - s.pos) EXCEPT !.v = VBytes(@)]
    ELSE [s EXCEPT !.v = VList(<<>>)]

RECURSIVE parse_asa_properties(_, _, _, _)
RECURSIVE ParseLoop(_, _, _, _, _, _, _)
RECURSIVE ParseNamed(_, _, _, _, _, _, _, _)
RECURSIVE ParseNext(_, _, _, _, _, _, _, _, _)
RECURSIVE ParseProperty(_, _, _)
RECURSIVE StructValue(_, _)
RECURSIVE ArrayValue(_, _)
RECURSIVE ReadStructElems(_, _, _, _, _, _, _, _)
RECURSIVE StructElement(_, _, _, _, _, _, _)
RECURSIVE StructParsed(_, _, _, _, _, _, _, _)
RECURSIVE StructBody(_, _, _)

\* The result of one property (the try block of parse_asa_properties):
\* ok is FALSE when it raised.
PropResult(s, entry, over) ==
    [ok |-> s.ok, pos |-> s.pos, hi |-> s.hi, over |-> over, hang |-> FALSE,
     entry |-> entry]

\* The result of a property whose entry is the value read.
EntryResult(r) == PropResult(r, r.v, FALSE)

HangProperty == [ok |-> FALSE, pos |-> 0, hi |-> 0, over |-> FALSE, hang |-> TRUE, entry |-> <<>>]

\* The stream after a nested call that returned at r.pos and read as far as
\* r.hi, s being the stream before it.
Resume(s, r) == [ok |-> TRUE, pos |-> r.pos, hi |-> Max(s.hi, r.hi), v |-> 0, got |-> s.got]

\* What _read_asa_array_elements returns for a struct array, the stream
\* being at last.
StructElems(last, elements, has_sep, over, hang) ==
    [ok |-> last.ok, pos |-> last.pos, hi |-> last.hi, over |-> over, hang |-> hang,
     elements |-> elements, has_sep |-> has_sep]

\* The peek before element i > 0 of a struct array: has_separators is "none"
\* until the first gap decides it.
Peeked(s, peek_val, i, has_separators) ==
    IF i = 0 THEN [s EXCEPT !.v = has_separators]
    ELSE IF ~peek_val.ok THEN peek_val
    ELSE IF has_separators = "yes" \/ (has_separators = "none" /\ peek_val.v = 0)
    THEN [peek_val EXCEPT !.v = "yes"]
    ELSE [seek(peek_val, s.pos) EXCEPT !.v = "no"]

\* The StructProperty branch of _read_asa_array_elements, from element i on.
ReadStructElems(b, s, data_end, i, length, has_separators, elements, over) ==
    IF i >= length \/ ~s.ok
    THEN StructElems(SeekTo(s, data_end), elements, has_separators = "yes", over, FALSE)
    ELSE StructElement(b, Peeked(s, readInt32(b, s), i, has_separators), data_end, i,
                       length, elements, over)

\* Element i of a struct array, the stream being after the peek (after.v is
\* has_separators).
StructElement(b, after, data_end, i, length, elements, over) ==
    IF ~after.ok THEN StructElems(after, elements, FALSE, over, FALSE)
    ELSE StructParsed(b, after, parse_asa_properties(b, after.pos, TRUE, data_end),
                      data_end, i, length, elements, over)

\* Element i of a struct array once parsed: the next one follows.
StructParsed(b, after, inner, data_end, i, length, elements, over) ==
    IF inner.hang
    THEN StructElems([after EXCEPT !.ok = FALSE], elements, FALSE, over, TRUE)
    ELSE ReadStructElems(b, Resume(after, inner), data_end, i + 1, length, after.v,
                         Append(elements, inner.props), over \/ inner.over)

\* The entry of a struct, s being the stream after its body (s.v is raw).
StructEntry(h, inner, s) ==
    PropResult(s,
        [_type |-> S_StructProperty, _struct |-> h.v.struct_name,
         _package |-> h.v.package, _index |-> h.v.index, _size |-> h.v.data_size,
         _tag |-> h.v.tag, data |-> inner.props, raw |-> s.v],
        inner.over)

\* The StructProperty branch once the body was parsed: a body without
\* properties is read again as raw bytes, and the stream is left at
\* expected_end.
StructBody(b, h, inner) ==
    IF inner.hang THEN HangProperty
    ELSE StructEntry(h, inner,
             SeekTo(IF Len(inner.props) = 0 /\ h.v.data_size > 0
                    THEN [readBytes(b, seek(Resume(h, inner), h.pos), h.v.data_size)
                             EXCEPT !.v = VBytes(@)]
                    ELSE [Resume(h, inner) EXCEPT !.v = VAbsent],
                    h.pos + h.v.data_size))

\* The StructProperty branch after the header h.
StructValue(b, h) ==
    IF ~h.ok THEN PropResult(h, <<>>, FALSE)
    ELSE StructBody(b, h, parse_asa_properties(b, h.pos, TRUE, h.pos + h.v.data_size))

\* The entry of an array with the header fields hv.
ArrayEntry(hv, has_sep, value) ==
    [_type |-> S_ArrayProperty, _child_type |-> hv.child_type, _struct |-> hv.s_name,
     _package |-> hv.package, _index |-> hv.index, _size |-> hv.data_size,
     _tag |-> hv.tag, _has_sep |-> has_sep, length |-> hv.length, value |-> value]

\* The result of an array of structs, structs being what
\* _read_asa_array_elements returned.
StructArray(h, structs) ==
    IF structs.hang THEN HangProperty
    ELSE PropResult(structs, ArrayEntry(h.v, structs.has_sep, VList(structs.elements)),
                    structs.over \/ structs.hi > Max(h.pos + (h.v.data_size - 4), h.pos))

\* The ArrayProperty branch after the header h.
ArrayValue(b, h) ==
    IF ~h.ok THEN PropResult(h, <<>>, FALSE)
    ELSE IF h.v.length = 0
    THEN PropResult(h, ArrayEntry(h.v, FALSE, VList(<<>>)), FALSE)
    ELSE IF h.v.child_type = S_StructProperty
    THEN StructArray(h, ReadStructElems(b, h, h.pos + (h.v.data_size - 4), 0,
                                        h.v.length, "none", <<>>, FALSE))
    ELSE [EntryResult(ReadPlainElems(b, h, h.v.child_type,
                                     h.pos + (h.v.data_size - 4), h.v.length))
             EXCEPT !.entry = ArrayEntry(h.v, FALSE, @)]

\* The BoolProperty branch: index, size, and the value byte.
BoolValue(b, s) ==
    LET idx == Keep(readInt32(b, Fresh(s)), "idx")
        sz == readInt32(b, idx)
        bool_val == Keep(_read_byte_val(b, sz), "bool_val")
    IN [Got(bool_val) EXCEPT !.v = [_type |-> S_BoolProperty, _index |-> @.idx,
                                    _size |-> 0, value |-> VInt(@.bool_val)]]

\* The branch of the simple types after the header h.
SimpleValue(b, h, ptype) ==
    [_read_asa_property_value(b, h, ptype, h.v.size)
        EXCEPT !.v = [_type |-> ptype, _index |-> h.v.index, _size |-> h.v.size,
                      _tag |-> h.v.tag, _extra |-> h.v.extra, value |-> @]]

\* One property after its (name, type) pair: the try block of the loop.
ParseProperty(b, s, ptype) ==
    IF ptype = S_StructProperty THEN StructValue(b, _read_asa_struct_header(b, s))
    ELSE IF ptype = S_ArrayProperty THEN ArrayValue(b, _read_asa_array_header(b, s))
    ELSE IF ptype = S_MapProperty THEN EntryResult(_read_asa_map_property(b, s))
    ELSE IF ptype = S_SetProperty THEN EntryResult(_read_asa_set_property(b, s))
    ELSE IF ptype = S_BoolProperty THEN EntryResult(BoolValue(b, s))
    ELSE EntryResult(SimpleValue(b, _read_asa_simple_header(b, s), ptype))

\* What parse_asa_properties returns, the stream being at st.
Parsed(st, bounded, data_end, props, over) ==
    [props |-> props, pos |-> st.pos, hi |-> st.hi,
     over |-> over \/ (bounded /\ st.hi > data_end), hang |-> FALSE, ok |-> TRUE]

\* An except clause that leaves the stream where the read failed.
StoppedWhereItFailed(st, bounded, data_end) == st

\* except Exception: the stream is put at data_end, if there is one.
Stopped(st, bounded, data_end) == IF bounded THEN [st EXCEPT !.pos = data_end] ELSE st

\* The loop of parse_asa_properties, at the top of an iteration.
ParseLoop(b, s, bounded, data_end, props, over, seen) ==
    IF bounded /\ s.pos >= data_end THEN Parsed(s, bounded, data_end, props, over)
    ELSE IF s.pos \in seen THEN Hang
    ELSE ParseNamed(b, s, _read_asa_pair(b, s), bounded, data_end, props, over, seen)

\* The iteration after its (name, type) pair was read.
ParseNamed(b, s, pair, bounded, data_end, props, over, seen) ==
    IF ~pair.ok
    THEN Parsed(Stopped(pair, bounded, data_end), bounded, data_end, props, over)
    ELSE IF pair.v.name = S_None THEN Parsed(pair, bounded, data_end, props, over)
    ELSE ParseNext(b, s, pair.v.name, ParseProperty(b, pair, pair.v.type_name),
                   bounded, data_end, props, over, seen)

\* The iteration after its property r was read: the next one follows it.
ParseNext(b, s, name, r, bounded, data_end, props, over, seen) ==
    IF r.hang THEN Hang
    ELSE IF ~r.ok
    THEN Parsed(Stopped(r, bounded, data_end), bounded, data_end, props, over)
    ELSE ParseLoop(b, Resume(s, r), bounded, data_end,
                   _merge_prop(props, name, r.entry), over \/ r.over, seen \cup {s.pos})

\* parse_asa_properties(stream, data_end) with the stream at pos; bounded is
\* FALSE for data_end=None.
parse_asa_properties(b, pos, bounded, data_end) ==
    ParseLoop(b, Stream(pos), bounded, data_end, <<>>, FALSE, {})

(***************************************************************************)
(* Low-level ASA property writing helpers.  w is the stream being written: *)
(* [ok, out]; ok is FALSE once a write has raised (what was written before *)
(* stays in out, every later write is skipped).                            *)
(***************************************************************************)
Writer == [ok |-> TRUE, out |-> <<>>]

writeBytes(w, x) == IF w.ok THEN [w EXCEPT !.out = @ \o x] ELSE w

Raise(w) == [w EXCEPT !.ok = FALSE]

\* struct.pack('<i', n): every integer of the model is in range.
writeInt32(w, n) == writeBytes(w, SLE(n, 4))

\* struct.pack('<I', n) raises on a negative n.
writeUInt32(w, n) == IF n < 0 THEN Raise(w) ELSE writeBytes(w, LE(n, 4))

\* struct.pack('<B', n) raises outside 0..255.
writeUChar(w, n) == IF n < 0 \/ n > 255 THEN Raise(w) ELSE writeBytes(w, <<n>>)

\* struct.pack of a fixed-width value; raises outside the format's range.
writeFixed(w, n, width, signed) ==
    IF signed
    THEN IF width = 2 /\ (n < -32768 \/ n > 32767) THEN Raise(w)
         ELSE writeBytes(w, SLE(n, width))
    ELSE IF n < 0 \/ (width = 2 /\ n > 65535) THEN Raise(w)
         ELSE writeBytes(w, LE(n, width))

\* str.encode('ascii') raises on a code point above 127.
IsAscii(s) == \A i \in 1..Len(s) : s[i] < 128

_write_nt_string(w, s) ==
    IF Len(s) = 0 THEN writeUInt32(w, 0)
    ELSE IF ~IsAscii(s) THEN Raise(w)
    ELSE writeBytes(writeBytes(writeUInt32(w, Len(s) + 1), s), <<0>>)

\* [ok, v]: the number of bytes a NTString occupies on disk.
_nt_string_byte_size(s) ==
    IF Len(s) = 0 THEN [ok |-> TRUE, v |-> 4]
    ELSE IF ~IsAscii(s) THEN [ok |-> FALSE, v |-> 0]
    ELSE [ok |-> TRUE, v |-> 4 + Len(s) + 1]

_write_asa_pair(w, name, ptype) == _write_nt_string(_write_nt_string(w, name), ptype)

\* bytes.hex(): two lowercase hexadecimal digits per byte.
HexDigit(d) == IF d < 10 THEN 48 + d ELSE 87 + d

Hex(x) ==
    [i \in 1..2 * Len(x) |->
        IF i % 2 = 1 THEN HexDigit(x[(i + 1) \div 2] \div 16)
        ELSE HexDigit(x[i \div 2] % 16)]

\* The value of a hexadecimal digit, -1 for any other character.
HexVal(c) ==
    IF c >= 48 /\ c <= 57 THEN c - 48
    ELSE IF c >= 97 /\ c <= 102 THEN c - 87
    ELSE IF c >= 65 /\ c <= 70 THEN c - 55
    ELSE -1

\* The characters bytes.fromhex does not skip: all but ASCII whitespace.
NotSpace(c) == c \notin {9, 10, 11, 12, 13, 32}

\* bytes.fromhex(s): [ok, v]; ASCII whitespace between bytes is skipped; ok is
\* FALSE where fromhex raises ValueError (a character that is no hexadecimal
\* digit, or a byte's first digit not directly followed by its second).
FromHex(s) ==
    LET t == SelectSeq(s, NotSpace)
        rank(i) == Cardinality({j \in 1..i : NotSpace(s[j])})
        paired == \A i \in 1..Len(s) :
                      (NotSpace(s[i]) /\ rank(i) % 2 = 1)
                          => (i < Len(s) /\ NotSpace(s[i + 1]))
    IN IF paired /\ \A k \in 1..Len(t) : HexVal(t[k]) >= 0
       THEN [ok |-> TRUE,
             v |-> [k \in 1..Len(t) \div 2 |->
                       16 * HexVal(t[2 * k - 1]) + HexVal(t[2 * k])]]
       ELSE [ok |-> FALSE, v |-> <<>>]

\* stream.writeBytes(h), h being the result of bytes.fromhex.
writeFromHex(w, h) == IF h.ok THEN writeBytes(w, h.v) ELSE Raise(w)

\* stream.writeBytes(bytes.fromhex(s)).
writeHex(w, s) == writeFromHex(w, FromHex(s))

\* len(x) of the bytes x = [ok, v]: [ok, v].
LenOf(x) == [ok |-> x.ok, v |-> Len(x.v)]

\* len(s.encode('utf-8')).
Utf8Len(s) ==
    LET n[i \in 0..Len(s)] ==
            IF i = 0 THEN 0
            ELSE n[i - 1] + (IF s[i] < 128 THEN 1 ELSE IF s[i] < 2048 THEN 2 ELSE 3)
    IN n[Len(s)]

(***************************************************************************)
(* ASA property value writers.                                             *)
(***************************************************************************)
\* The three strings of a SoftObjectProperty value.
WriteSoftObject(w, d) ==
    _write_nt_string(_write_nt_string(_write_nt_string(w, d.package), d.asset),
                     d.sub_path)

_write_asa_property_value(w, prop_type, value, size) ==
    IF prop_type \in FixedTypes
    THEN IF value.t = "int"
         THEN writeFixed(w, value.v, FixedWidth(prop_type), FixedSigned(prop_type))
         ELSE Raise(w)
    ELSE IF prop_type = S_BoolProperty THEN w
    ELSE IF prop_type \in {S_StrProperty, S_NameProperty}
    THEN IF size > 0
         THEN IF ~Truthy(value) THEN _write_nt_string(w, <<>>)
              ELSE IF value.t = "str" THEN _write_nt_string(w, value.v)
              ELSE Raise(w)
         ELSE w
    ELSE IF prop_type = S_ByteProperty
    THEN IF value.t = "int" THEN writeUChar(w, value.v)
         ELSE IF value.t = "str" THEN writeHex(w, value.v)
         ELSE IF value.t = "bytes" THEN writeBytes(w, value.v)
         ELSE w
    ELSE IF prop_type = S_ObjectProperty /\ value.t = "none"
    THEN IF size = 8 THEN writeBytes(w, <<0, 0, 0, 0, 255, 255, 255, 255>>)
         ELSE writeBytes(w, <<255, 255, 255, 255>>)
    ELSE IF prop_type = S_ObjectProperty /\ value.t = "int"
    THEN writeInt32(w, value.v)
    ELSE IF prop_type = S_ObjectProperty /\ value.t = "str"
    THEN _write_nt_string(writeInt32(w, 1), value.v)
    ELSE IF prop_type = S_SoftObjectProperty
    THEN IF value.t = "dict" THEN WriteSoftObject(w, value.v) ELSE w
    ELSE IF value.t = "bytes" THEN writeBytes(w, value.v)
    ELSE IF value.t = "str" THEN writeHex(w, value.v)
    ELSE w

\* [ok, v]: the byte size of a property value for the header; size is the
\* entry's _size.
_compute_value_size(prop_type, value, size) ==
    LET is(n) == [ok |-> TRUE, v |-> n]
    IN IF prop_type \in FixedTypes THEN is(FixedWidth(prop_type))
       ELSE IF prop_type = S_BoolProperty THEN is(0)
       ELSE IF prop_type \in {S_StrProperty, S_NameProperty}
       THEN IF ~Truthy(value) THEN is(size)
            ELSE IF value.t = "str" THEN _nt_string_byte_size(value.v)
            ELSE [ok |-> FALSE, v |-> 0]
       ELSE IF prop_type = S_ByteProperty
       THEN IF value.t = "int" THEN is(1)
            ELSE IF value.t = "bytes" THEN is(Len(value.v))
            ELSE IF value.t = "str"
            THEN LenOf(FromHex(value.v))
            ELSE is(1)
       ELSE IF prop_type = S_ObjectProperty
       THEN IF value.t = "none" THEN is(size)
            ELSE IF value.t = "int" THEN is(4)
            ELSE IF value.t = "str" THEN is(4 + 4 + Utf8Len(value.v) + 1)
            ELSE is(size)
       ELSE IF prop_type = S_SoftObjectProperty
       THEN IF value.t = "dict"
            THEN LET p == _nt_string_byte_size(value.v.package)
                     a == _nt_string_byte_size(value.v.asset)
                     u == _nt_string_byte_size(value.v.sub_path)
                 IN [ok |-> p.ok /\ a.ok /\ u.ok, v |-> p.v + a.v + u.v]
            ELSE is(size)
       ELSE is(size)

(***************************************************************************)
(* Array element writer and the recursive property serialiser.             *)
(***************************************************************************)
\* Pre-computed NTString("None") bytes (used for size checks).
_NONE_BYTES == <<5, 0, 0, 0, 78, 111, 110, 101, 0>>

RECURSIVE WriteFixedElems(_, _, _)
WriteFixedElems(w, t, elems) ==
    IF Len(elems) = 0 THEN w
    ELSE WriteFixedElems(writeFixed(w, elems[1], ArrayFixedWidth(t), FixedSigned(t)),
                         t, Tail(elems))

RECURSIVE WriteStrElems(_, _, _)
\* prefix: the int32 1 written before each ObjectProperty element.
WriteStrElems(w, prefix, elems) ==
    IF Len(elems) = 0 THEN w
    ELSE WriteStrElems(_write_nt_string(IF prefix THEN writeInt32(w, 1) ELSE w, elems[1]),
                       prefix, Tail(elems))

RECURSIVE WriteSoftElems(_, _)
WriteSoftElems(w, elems) ==
    IF Len(elems) = 0 THEN w
    ELSE WriteSoftElems(WriteSoftObject(w, elems[1]), Tail(elems))

RECURSIVE serialize_asa_properties(_, _, _)
RECURSIVE _write_asa_property(_, _, _)
RECURSIVE WriteEntries(_, _, _)
RECURSIVE WriteStructElems(_, _, _, _)

RECURSIVE WriteSeparated(_, _, _, _)
\* The elements written with a separator in every gap, whatever has_sep is.
WriteSeparated(w, elems, i, has_sep) ==
    IF i > Len(elems) THEN w
    ELSE WriteSeparated(
             serialize_asa_properties(IF i > 1 THEN writeInt32(w, 0) ELSE w, elems[i], TRUE),
             elems, i + 1, has_sep)

\* The StructProperty branch of _write_asa_array_elements, from element i on.
WriteStructElems(w, elems, i, has_sep) ==
    IF i > Len(elems) THEN w
    ELSE WriteStructElems(
             serialize_asa_properties(IF i > 1 /\ has_sep THEN writeInt32(w, 0) ELSE w,
                                      elems[i], TRUE),
             elems, i + 1, has_sep)

\* elements is the entry's value: a list, or the bytes (hex after a document
\* round trip) of an array of an unknown child type.
_write_asa_array_elements(w, child_type, elements, has_sep) ==
    IF ~Truthy(elements) THEN w
    ELSE IF elements.t = "list"
    THEN IF child_type = S_StructProperty THEN WriteStructElems(w, elements.v, 1, has_sep)
         ELSE IF child_type \in ArrayFixedTypes
         THEN WriteFixedElems(w, child_type, elements.v)
         ELSE IF child_type \in {S_StrProperty, S_NameProperty}
         THEN WriteStrElems(w, FALSE, elements.v)
         ELSE IF child_type = S_ObjectProperty THEN WriteStrElems(w, TRUE, elements.v)
         ELSE IF child_type = S_SoftObjectProperty THEN WriteSoftElems(w, elements.v)
         ELSE w
    ELSE IF elements.t = "bytes" THEN writeBytes(w, elements.v)
    ELSE IF elements.t = "str" THEN writeHex(w, elements.v)
    ELSE w

\* Serialize array elements to a bytes buffer: [ok, out].
_serialize_array_elements(child_type, elements, has_sep) ==
    _write_asa_array_elements(Writer, child_type, elements, has_sep)

\* Serialize properties to bytes: [ok, out].
_serialize_properties(props, with_none) == serialize_asa_properties(Writer, props, with_none)

\* raw of a struct, map or set entry as bytes: [ok, v]; a str is hex.
RawBytes(raw) ==
    IF raw.t = "str" THEN FromHex(raw.v)
    ELSE IF raw.t = "bytes" THEN [ok |-> TRUE, v |-> raw.v]
    ELSE [ok |-> FALSE, v |-> <<>>]

\* The body of a StructProperty once its properties were serialised to
\* no_none (without the None terminator): padded, or the terminator dropped,
\* to keep the original size.
InnerBytes(no_none, orig_size) ==
    LET n == Len(no_none.out)
        with_terminator == no_none.out \o _NONE_BYTES
    IN IF ~no_none.ok THEN [ok |-> FALSE, v |-> <<>>]
       ELSE IF orig_size > 0 /\ n + Len(_NONE_BYTES) > orig_size
       THEN [ok |-> TRUE, v |-> no_none.out \o Zeros(Max(0, orig_size - n))]
       ELSE IF orig_size > 0
       THEN IF Len(with_terminator) <= orig_size
            THEN [ok |-> TRUE,
                  v |-> with_terminator \o Zeros(orig_size - Len(with_terminator))]
            ELSE [ok |-> TRUE, v |-> with_terminator]
       ELSE [ok |-> TRUE, v |-> with_terminator]

\* The body of a StructProperty with original size orig_size: [ok, v].
StructInnerBytes(data, raw, orig_size) ==
    IF raw.t # "absent" /\ raw.t # "none" /\ Len(data) = 0 THEN RawBytes(raw)
    ELSE InnerBytes(_serialize_properties(data, FALSE), orig_size)

\* The payload of a NameProperty SetProperty: zero header, count, names.
SetData(names) == WriteStrElems(writeInt32(writeInt32(Writer, 0), Len(names)), FALSE, names)

\* `s_name or ''` for the _struct and _package of an array entry.
OrEmpty(x) == IF x.t = "str" THEN x.v ELSE <<>>

\* The StructProperty branch after the pair, inner_bytes being the body.
WriteStruct(w1, entry, inner_bytes) ==
    LET w2 == _write_nt_string(writeInt32(w1, 1), entry._struct)
        w3 == _write_nt_string(writeInt32(w2, 1), entry._package)
        w4 == writeInt32(writeInt32(w3, entry._index), Len(inner_bytes.v))
    IN IF ~w1.ok \/ ~inner_bytes.ok THEN Raise(w1)
       ELSE writeBytes(writeUChar(w4, entry._tag), inner_bytes.v)

\* The struct name and package of the header of an array of structs.
WriteArrayNames(w, entry) ==
    IF entry._child_type = S_StructProperty
    THEN _write_nt_string(writeInt32(
             _write_nt_string(writeInt32(w, 1), OrEmpty(entry._struct)),
             1), OrEmpty(entry._package))
    ELSE w

\* The zero bytes that fill an array up to its original size.
Padded(w, pad) == IF pad > 0 THEN writeBytes(w, Zeros(pad)) ELSE w

\* data_size of the ArrayProperty branch: the original size is kept when it
\* is larger than the length field and the elements.
ArrayDataSize(entry, elem_bytes) ==
    IF entry._size > 0 THEN Max(entry._size, 4 + Len(elem_bytes.out))
    ELSE 4 + Len(elem_bytes.out)

\* The ArrayProperty branch after the pair, elem_bytes being the elements.
WriteArray(w1, entry, elem_bytes) ==
    LET length == IF entry.value.t = "list" THEN Len(entry.value.v) ELSE 0
        w2 == _write_nt_string(writeInt32(w1, 1), entry._child_type)
        w3 == WriteArrayNames(w2, entry)
        w4 == writeInt32(writeInt32(w3, entry._index), ArrayDataSize(entry, elem_bytes))
        w5 == writeInt32(writeUChar(w4, entry._tag), length)
        w6 == writeBytes(w5, elem_bytes.out)
    IN IF ~w1.ok \/ ~elem_bytes.ok THEN Raise(w1)
       ELSE Padded(w6, (ArrayDataSize(entry, elem_bytes) - 4) - Len(elem_bytes.out))

\* A bool written as 0 or 1, whatever byte was read.
WriteBoolNormalised(w1, entry) ==
    writeUChar(writeInt32(writeInt32(w1, entry._index), 0),
               IF Truthy(entry.value) THEN 1 ELSE 0)

\* The BoolProperty branch.
WriteBool(w1, entry) ==
    writeUChar(writeInt32(writeInt32(w1, entry._index), 0),
               IF entry.value.t = "int" THEN entry.value.v
               ELSE IF Truthy(entry.value) THEN 1 ELSE 0)

\* A map written with one flag only: none before the value type.
WriteMapOneFlag(w1, entry, raw) ==
    LET w2 == _write_nt_string(writeInt32(w1, 1), entry._key_type)
        w3 == _write_nt_string(w2, entry._val_type)
        w4 == writeInt32(writeInt32(w3, entry._index), Len(raw.v))
    IN IF ~w1.ok \/ ~raw.ok THEN Raise(w1)
       ELSE writeBytes(writeUChar(w4, entry._tag), raw.v)

\* The MapProperty branch after the pair, raw being the payload.
WriteMap(w1, entry, raw) ==
    LET w2 == _write_nt_string(writeInt32(w1, 1), entry._key_type)
        w3 == _write_nt_string(writeInt32(w2, 1), entry._val_type)
        w4 == writeInt32(writeInt32(w3, entry._index), Len(raw.v))
    IN IF ~w1.ok \/ ~raw.ok THEN Raise(w1)
       ELSE writeBytes(writeUChar(w4, entry._tag), raw.v)

\* buf.getvalue() of the stream buf: [ok, v].
getvalue(buf) == [ok |-> buf.ok, v |-> buf.out]

\* The payload of a SetProperty: rebuilt from the names, or raw.
SetPayload(entry) ==
    IF entry._elem_type = S_NameProperty /\ entry.value.t # "absent"
    THEN getvalue(SetData(entry.value.v))
    ELSE RawBytes(entry.raw)

\* The SetProperty branch after the pair, set_data being the payload.
WriteSet(w1, entry, set_data) ==
    LET w2 == _write_nt_string(writeInt32(w1, 1), entry._elem_type)
        w3 == writeInt32(writeInt32(w2, entry._index), Len(set_data.v))
    IN IF ~w1.ok \/ ~set_data.ok THEN Raise(w1)
       ELSE writeBytes(writeUChar(w3, entry._tag), set_data.v)

\* if tag: the extra int32 after a non-zero tag.
WriteExtra(w, entry) ==
    IF entry._tag # 0
    THEN writeInt32(w, IF entry._extra.t = "int" THEN entry._extra.v ELSE 0)
    ELSE w

\* The branch of the simple types after the pair, sz being the value size.
WriteSimple(w1, entry, sz) ==
    LET w2 == writeUChar(writeInt32(writeInt32(w1, entry._index), sz.v), entry._tag)
    IN IF ~w1.ok \/ ~sz.ok THEN Raise(w1)
       ELSE _write_asa_property_value(WriteExtra(w2, entry), entry._type, entry.value,
                                      sz.v)

\* Write a single property (header + value).
_write_asa_property(w, name, entry) ==
    IF ~w.ok THEN w
    ELSE IF entry._type = S_StructProperty
    THEN WriteStruct(_write_asa_pair(w, name, S_StructProperty), entry,
                     StructInnerBytes(entry.data, entry.raw, entry._size))
    ELSE IF entry._type = S_ArrayProperty
    THEN WriteArray(_write_asa_pair(w, name, S_ArrayProperty), entry,
                    _serialize_array_elements(entry._child_type, entry.value,
                                              entry._has_sep))
    ELSE IF entry._type = S_BoolProperty
    THEN WriteBool(_write_asa_pair(w, name, S_BoolProperty), entry)
    ELSE IF entry._type = S_MapProperty
    THEN WriteMap(_write_asa_pair(w, name, S_MapProperty), entry, RawBytes(entry.raw))
    ELSE IF entry._type = S_SetProperty
    THEN WriteSet(_write_asa_pair(w, name, S_SetProperty), entry, SetPayload(entry))
    ELSE WriteSimple(_write_asa_pair(w, name, entry._type), entry,
                     _compute_value_size(entry._type, entry.value, entry._size))

\* The entries stored under one name, in list order.
WriteEntries(w, name, entries) ==
    IF Len(entries) = 0 THEN w
    ELSE WriteEntries(_write_asa_property(w, name, entries[1]), name, Tail(entries))

\* Write all properties, optionally ending with None.
serialize_asa_properties(w, props, with_none) ==
    IF Len(props) = 0
    THEN IF with_none THEN _write_nt_string(w, S_None) ELSE w
    ELSE serialize_asa_properties(WriteEntries(w, props[1].name, props[1].items),
                                  Tail(props), with_none)

(***************************************************************************)
(* PlayerLocalData: size recalculation.  Results are [ok, v]; ok is FALSE  *)
(* when the call raised (v is then the tree as far as it was updated).     *)
(***************************************************************************)
RECURSIVE _recalc(_)
RECURSIVE _recalc_entry(_)
RECURSIVE RecalcEntries(_)
RECURSIVE RecalcElems(_)

\* A list rebuilt with its first item moved behind the others.
RecalculatedBehind(one, others, rest) ==
    IF ~one.ok THEN [ok |-> FALSE, v |-> <<one.v>> \o others]
    ELSE [ok |-> rest.ok, v |-> rest.v \o <<one.v>>]

\* A list whose first item was recalculated to one and whose other items
\* (others) are recalculated to rest; an exception in one leaves the others.
Recalculated(one, others, rest) ==
    IF ~one.ok THEN [ok |-> FALSE, v |-> <<one.v>> \o others]
    ELSE [ok |-> rest.ok, v |-> <<one.v>> \o rest.v]

\* The entry with its _size set to sz = [ok, v]; it is left as it is when
\* computing the size raised.
Resized(entry, sz) ==
    IF ~sz.ok THEN [ok |-> FALSE, v |-> entry]
    ELSE [ok |-> TRUE, v |-> [entry EXCEPT !._size = sz.v]]

\* cls._recalc(elem) for each element of a struct array.
RecalcElems(elems) ==
    IF Len(elems) = 0 THEN [ok |-> TRUE, v |-> <<>>]
    ELSE Recalculated(_recalc(elems[1]), Tail(elems), RecalcElems(Tail(elems)))

\* A struct entry whose data was recalculated: the size of its body.
StructResized(entry, ok) ==
    IF ~ok THEN [ok |-> FALSE, v |-> entry]
    ELSE Resized(entry, LenOf(StructInnerBytes(entry.data, entry.raw, entry._size)))

\* A struct entry after the recursion into its data.
RecalcStruct(entry, data) == StructResized([entry EXCEPT !.data = data.v], data.ok)

\* The elements of an array entry, those of a struct array recalculated.
RecalcValue(entry) ==
    IF entry._child_type = S_StructProperty /\ entry.value.t = "list"
    THEN RecalcElems(entry.value.v)
    ELSE [ok |-> TRUE, v |-> entry.value.v]

\* A size that adds the elements to the size the entry had.
ArraySizeAdded(entry, elem_bytes) ==
    [ok |-> elem_bytes.ok, v |-> entry._size + 4 + Len(elem_bytes.out)]

\* The _size of an array entry whose elements serialise to elem_bytes.
ArraySize(entry, elem_bytes) ==
    [ok |-> elem_bytes.ok,
     v |-> IF entry._size > 0 THEN Max(entry._size, 4 + Len(elem_bytes.out))
           ELSE 4 + Len(elem_bytes.out)]

\* An array entry whose elements were recalculated: the size of the elements
\* and of the padding kept.
RecalcArray(entry, ok) ==
    IF ~ok THEN [ok |-> FALSE, v |-> entry]
    ELSE Resized(entry,
                 ArraySize(entry, _serialize_array_elements(entry._child_type,
                                                            entry.value, entry._has_sep)))

\* An array entry after the recursion into its elements: length and value.
ArrayRecursed(entry, recursed) ==
    RecalcArray([entry EXCEPT !.length = IF entry.value.t = "list"
                                         THEN Len(entry.value.v) ELSE 0,
                              !.value = [@ EXCEPT !.v = recursed.v]],
                recursed.ok)

_recalc_entry(entry) ==
    IF entry._type = S_StructProperty
    THEN IF Len(entry.data) > 0
         THEN RecalcStruct(entry, _recalc(entry.data))
         ELSE [ok |-> TRUE, v |-> entry]
    ELSE IF entry._type = S_ArrayProperty THEN ArrayRecursed(entry, RecalcValue(entry))
    ELSE IF entry._type = S_MapProperty THEN Resized(entry, LenOf(RawBytes(entry.raw)))
    ELSE IF entry._type = S_SetProperty
    THEN IF entry._elem_type = S_NameProperty /\ entry.value.t # "absent"
         THEN Resized(entry, LenOf(getvalue(SetData(entry.value.v))))
         ELSE [ok |-> TRUE, v |-> entry]
    ELSE IF entry._type # S_BoolProperty
    THEN Resized(entry, _compute_value_size(entry._type, entry.value, entry._size))
    ELSE [ok |-> TRUE, v |-> entry]

\* [cls._recalc_entry(e) for e in entry].
RecalcEntries(entries) ==
    IF Len(entries) = 0 THEN [ok |-> TRUE, v |-> <<>>]
    ELSE Recalculated(_recalc_entry(entries[1]), Tail(entries),
                      RecalcEntries(Tail(entries)))

\* The item of a property dict with its entries recalculated to one.
RecalcItem(item, one) == [ok |-> one.ok, v |-> [item EXCEPT !.items = one.v]]

\* Recursively recalculate sizes for a property dict.
_recalc(props) ==
    IF Len(props) = 0 THEN [ok |-> TRUE, v |-> <<>>]
    ELSE Recalculated(RecalcItem(props[1], RecalcEntries(props[1].items)),
                      Tail(props), _recalc(Tail(props)))

(***************************************************************************)
(* PlayerLocalData: the document form.  Only bytes objects change: a bytes *)
(* becomes its hex str in _jsonify, and _unjsonify turns the str under a   *)
(* key 'raw' back into bytes.  (A float, carried here as its bit pattern,  *)
(* comes back as the same float.)                                          *)
(***************************************************************************)
RECURSIVE _jsonify(_)
RECURSIVE JsonifyEntry(_)
RECURSIVE _unjsonify(_)
RECURSIVE UnjsonifyEntry(_)

\* _jsonify of a value.
JsonifyValue(x) == IF x.t = "bytes" THEN VStr(Hex(x.v)) ELSE x

JsonifyEntry(e) ==
    IF e._type = S_StructProperty
    THEN [e EXCEPT !.data = _jsonify(@), !.raw = JsonifyValue(@)]
    ELSE IF e._type = S_ArrayProperty
    THEN IF e._child_type = S_StructProperty /\ e.value.t = "list"
         THEN [e EXCEPT !.value = VList([i \in 1..Len(e.value.v) |-> _jsonify(e.value.v[i])])]
         ELSE [e EXCEPT !.value = JsonifyValue(@)]
    ELSE IF e._type = S_MapProperty THEN [e EXCEPT !.raw = JsonifyValue(@)]
    ELSE IF e._type = S_SetProperty THEN [e EXCEPT !.raw = JsonifyValue(@)]
    ELSE [e EXCEPT !.value = JsonifyValue(@)]

\* Recursively convert a property dict to JSON-safe types.
_jsonify(props) ==
    [i \in 1..Len(props) |->
        [props[i] EXCEPT !.items = [j \in 1..Len(@) |-> JsonifyEntry(@[j])]]]

\* _unjsonify of the value under the key 'raw'.
UnjsonifyRaw(x) == IF x.t = "str" /\ FromHex(x.v).ok THEN VBytes(FromHex(x.v).v) ELSE x

UnjsonifyEntry(e) ==
    IF e._type = S_StructProperty
    THEN [e EXCEPT !.data = _unjsonify(@), !.raw = UnjsonifyRaw(@)]
    ELSE IF e._type = S_ArrayProperty
    THEN IF e._child_type = S_StructProperty /\ e.value.t = "list"
         THEN [e EXCEPT !.value = VList([i \in 1..Len(e.value.v) |-> _unjsonify(e.value.v[i])])]
         ELSE e
    ELSE IF e._type = S_MapProperty THEN [e EXCEPT !.raw = UnjsonifyRaw(@)]
    ELSE IF e._type = S_SetProperty THEN [e EXCEPT !.raw = UnjsonifyRaw(@)]
    ELSE e

\* Reverse _jsonify: convert hex strings back to bytes for raw fields.
_unjsonify(props) ==
    [i \in 1..Len(props) |->
        [props[i] EXCEPT !.items = [j \in 1..Len(@) |-> UnjsonifyEntry(@[j])]]]

(***************************************************************************)
(* PlayerLocalData: the object, _load, save, to_dict and from_dict.        *)
(***************************************************************************)
\* PlayerLocalData.__init__ with file_path=None.
NewPlayerLocalData ==
    [header_v1 |-> 0, header_v2 |-> 0, header_v3 |-> 0, version |-> 1,
     guid |-> Zeros(16), file_type |-> <<>>, name |-> <<>>, controller |-> <<>>,
     game_mode |-> <<80, 101, 114, 115, 105, 115, 116, 101, 110, 116, 76, 101, 118, 101, 108>>,
     map_name |-> <<>>, map_path |-> <<>>, header_size |-> 0,
     data |-> <<>>, trailing_data |-> <<>>]


\* A load that returns an empty object where _load raises.
LoadQuiet(status) == [status |-> "ok", obj |-> NewPlayerLocalData, over |-> FALSE]

\* What _load raises: status is "version" (ASAParseError), "error" (another
\* exception) or "hang" (it never returns).
LoadFailed(status) == [status |-> status, obj |-> NewPlayerLocalData, over |-> FALSE]

\* _load once the property list was parsed, h being the header fields.
Loaded(b, h, parsed) ==
    IF parsed.hang THEN LoadFailed("hang")
    ELSE [status |-> "ok",
          obj |-> [header_v1 |-> h.header_v1, header_v2 |-> h.header_v2,
                   header_v3 |-> h.header_v3, version |-> h.version, guid |-> h.guid,
                   file_type |-> h.file_type, name |-> h.name,
                   controller |-> h.controller, game_mode |-> h.game_mode,
                   map_name |-> h.map_name, map_path |-> h.map_path,
                   header_size |-> h.header_size, data |-> parsed.props,
                   trailing_data |-> IF parsed.pos < Len(b)
                                     THEN SubSeq(b, parsed.pos + 1, Len(b)) ELSE <<>>],
          over |-> parsed.over]

\* _load after the header: the property list starts where the header ends.
LoadProperties(b, header) ==
    IF ~header.ok THEN LoadFailed("error")
    ELSE Loaded(b, header.v, parse_asa_properties(b, header.pos, FALSE, 0))

\* _load after the version was read: the rest of the header.
LoadHeader(b, version) ==
    IF ~version.ok THEN LoadFailed("error")
    ELSE IF version.v # 1 THEN LoadFailed("version")
    ELSE LET guid == Keep(readBytes(b, version, 16), "guid")
             file_type == Keep(_safe_read_nt_string(b, guid), "file_type")
             name == Keep(_safe_read_nt_string(b, readInt32(b, readInt32(b, file_type))),
                          "name")
             controller == Keep(_safe_read_nt_string(b, name), "controller")
             game_mode == Keep(_safe_read_nt_string(b, controller), "game_mode")
             map_name == Keep(_safe_read_nt_string(b, game_mode), "map_name")
             map_path == Keep(_safe_read_nt_string(b, map_name), "map_path")
             header_size == Keep(readInt32(b, readBytes(b, map_path, 12)), "header_size")
             sep == readBytes(b, readInt32(b, header_size), 1)
         IN LoadProperties(b, Got(sep))

\* _load on a file holding the bytes b: [status, obj, over], status "ok" or
\* that of LoadFailed.
_load(b) ==
    LET header_v1 == Keep(readInt32(b, Fresh(Stream(0))), "header_v1")
        header_v2 == Keep(readInt32(b, header_v1), "header_v2")
        header_v3 == Keep(readInt32(b, header_v2), "header_v3")
        version == Keep(readInt32(b, header_v3), "version")
    IN LoadHeader(b, version)

\* self.data after self._recalc(self.data) gave r.
WithData(obj, r) == [ok |-> r.ok, v |-> [obj EXCEPT !.data = r.v]]

\* recalculate_sizes: [ok, v], v the object afterwards.
recalculate_sizes(obj) == WithData(obj, _recalc(obj.data))

\* The bytes save writes once the file is open: [ok, out].
WriteFile(obj) ==
    LET w1 == writeInt32(writeInt32(writeInt32(Writer, obj.header_v1), obj.header_v2),
                         obj.header_v3)
        w2 == writeBytes(writeInt32(w1, obj.version), obj.guid)
        w3 == writeInt32(writeInt32(_write_nt_string(w2, obj.file_type), 0), 5)
        w4 == _write_nt_string(_write_nt_string(_write_nt_string(w3, obj.name),
                                                obj.controller), obj.game_mode)
        w5 == _write_nt_string(_write_nt_string(w4, obj.map_name), obj.map_path)
        w6 == writeInt32(writeInt32(writeBytes(w5, Zeros(12)), obj.header_size), 0)
        w7 == serialize_asa_properties(writeUChar(w6, 0), obj.data, TRUE)
    IN writeBytes(w7, obj.trailing_data)

\* save once the file was written as w.
Saved(obj, w) == [ok |-> w.ok, obj |-> obj, file |-> w.out]

\* save after recalculate_sizes gave sized.
SaveSized(sized, old) ==
    IF ~sized.ok THEN [ok |-> FALSE, obj |-> sized.v, file |-> old]
    ELSE Saved(sized.v, WriteFile(sized.v))

\* save onto a file holding old: [ok, obj, file].  Sizes are recalculated
\* first; open(file_path, 'wb') then truncates the file, and what is written
\* before an exception stays in it.
save(obj, old) == SaveSized(recalculate_sizes(obj), old)

\* to_dict: the header (guid and trailing_data as hex) and the jsonified tree.
to_dict(obj) ==
    [obj EXCEPT !.guid = Hex(@), !.trailing_data = Hex(@), !.data = _jsonify(@)]

\* from_dict: [ok, v]; an empty trailing_data becomes int32 0 + guid.
from_dict(d) ==
    LET guid == FromHex(d.guid)
        td == FromHex(d.trailing_data)
    IN [ok |-> guid.ok /\ td.ok,
        v |-> [d EXCEPT !.guid = guid.v,
                        !.trailing_data = IF Len(d.trailing_data) > 0 THEN td.v
                                          ELSE LE(0, 4) \o guid.v,
                        !.data = _unjsonify(@)]]

(***************************************************************************)
(* The verifier of asa_tool_localprofile: an independent walk over the     *)
(* bytes of a file.  v is its state [ok, pos, errors, checked, hang]: ok   *)
(* is FALSE once struct.error or IndexError was raised, errors lists the   *)
(* kinds of the messages passed to error(), checked is props_checked, and  *)
(* hang is TRUE when the walk returns to a position it already visited.    *)
(***************************************************************************)
\* data[lo:hi], with Python's clamping of slice bounds.
Slice(data, lo, hi) ==
    LET n == Len(data)
        a == IF lo < 0 THEN Max(0, lo + n) ELSE Min(lo, n)
        z == IF hi < 0 THEN Max(0, hi + n) ELSE Min(hi, n)
    IN SubSeq(data, a + 1, z)

\* struct.unpack_from('<i' or '<I', data, pos): [ok, v].  A negative offset
\* counts from the end; struct.error when four bytes are not there.
unpack_from(data, pos, signed) ==
    LET off == IF pos < 0 THEN pos + Len(data) ELSE pos
    IN IF off < 0 \/ Len(data) - off < 4 THEN [ok |-> FALSE, v |-> 0]
       ELSE [ok |-> TRUE, v |-> IF signed THEN SIntOf(SubSeq(data, off + 1, off + 4))
                                ELSE UIntOf(SubSeq(data, off + 1, off + 4))]

\* data[pos]: [ok, v], IndexError outside -len..len-1.
IndexByte(data, pos) ==
    LET off == IF pos < 0 THEN pos + Len(data) ELSE pos
    IN IF off < 0 \/ off >= Len(data) THEN [ok |-> FALSE, v |-> 0]
       ELSE [ok |-> TRUE, v |-> data[off + 1]]

\* _read_ntstring after the length prefix slen was unpacked.
StringAt(data, pos, slen) ==
    IF ~slen.ok THEN [ok |-> FALSE, none |-> TRUE, s |-> <<>>, pos |-> pos]
    ELSE IF slen.v = 0 THEN [ok |-> TRUE, none |-> FALSE, s |-> <<>>, pos |-> pos + 4]
    ELSE [ok |-> TRUE, none |-> FALSE,
          s |-> DecodeAscii(Slice(data, pos + 4, pos + 4 + slen.v - 1)),
          pos |-> pos + 4 + slen.v]

\* _read_ntstring: [ok, none, s, pos]; none stands for the result (None, pos).
_read_ntstring(data, pos) ==
    IF pos + 4 > Len(data) THEN [ok |-> TRUE, none |-> TRUE, s |-> <<>>, pos |-> pos]
    ELSE StringAt(data, pos, unpack_from(data, pos, FALSE))

valid_types ==
    {S_StructProperty, S_ArrayProperty, S_MapProperty, S_SetProperty, S_BoolProperty,
     S_IntProperty, S_UInt32Property, S_FloatProperty, S_DoubleProperty,
     S_Int64Property, S_UInt64Property, S_Int16Property, S_UInt16Property,
     S_ByteProperty, S_StrProperty, S_NameProperty, S_ObjectProperty,
     S_SoftObjectProperty}

\* The result (None, None, pos) of _read_pair.
NoPair(pos) == [ok |-> TRUE, none |-> TRUE, name |-> <<>>, ptype |-> <<>>, pos |-> pos]

\* _read_pair after the type tp was read.
PairTyped(pos, nm, tp) ==
    IF ~tp.ok THEN [NoPair(pos) EXCEPT !.ok = FALSE]
    ELSE IF tp.none THEN NoPair(pos)
    ELSE IF tp.s \notin valid_types THEN NoPair(pos)
    ELSE [ok |-> TRUE, none |-> FALSE, name |-> nm.s, ptype |-> tp.s, pos |-> tp.pos]

\* _read_pair after the name nm was read.
PairNamed(data, pos, end, nm) ==
    IF ~nm.ok THEN [NoPair(pos) EXCEPT !.ok = FALSE]
    ELSE IF nm.none THEN NoPair(pos)
    ELSE IF nm.s = S_None
    THEN [ok |-> TRUE, none |-> FALSE, name |-> nm.s, ptype |-> <<>>, pos |-> nm.pos]
    ELSE IF Len(nm.s) > 200 \/ ~(\A i \in 1..Len(nm.s) : 32 <= nm.s[i] /\ nm.s[i] < 127)
    THEN NoPair(pos)
    ELSE IF nm.pos + 4 > end THEN NoPair(pos)
    ELSE PairTyped(pos, nm, _read_ntstring(data, nm.pos))

\* _read_pair: [ok, none, name, ptype, pos]; none stands for (None, None, pos).
_read_pair(data, pos, end) ==
    IF pos + 4 > end THEN NoPair(pos) ELSE PairNamed(data, pos, end, _read_ntstring(data, pos))

\* _Verifier.__init__, positioned at pos.
Verifier(pos) == [ok |-> TRUE, pos |-> pos, errors |-> <<>>, checked |-> 0, hang |-> FALSE]

\* _Verifier.error: one more message, the walk continues at pos.
error(v, kind, pos) == [v EXCEPT !.errors = Append(@, kind), !.pos = pos]

\* The local variable pos of a handler, advancing over the fields it reads:
\* [ok, pos, v, got], as for a stream.
Cursor(pos) == [ok |-> TRUE, pos |-> pos, v |-> 0, got |-> <<<<>>>>]

\* The cursor after the read r = [ok, v] of n bytes.
Moved(c, r, n) == [c EXCEPT !.ok = @ /\ r.ok, !.pos = @ + n, !.v = r.v]

\* x = struct.unpack_from('<i', data, pos)[0]; pos += 4.
IntAt(data, c) == Moved(c, unpack_from(data, c.pos, TRUE), 4)

\* x = data[pos]; pos += 1.
ByteAt(data, c) == Moved(c, IndexByte(data, c.pos), 1)

\* pos += n.
Skip(c, n) == [c EXCEPT !.pos = @ + n]

\* The cursor after the string r was read: v = [s, none].
StringRead(c, r) ==
    [c EXCEPT !.ok = @ /\ r.ok, !.pos = r.pos, !.v = [s |-> r.s, none |-> r.none]]

\* x, pos = _read_ntstring(data, pos).
StringAtCursor(data, c) == StringRead(c, _read_ntstring(data, c.pos))

\* The end of a handler whose value ends at expected_end.
EndsAt(data, v, expected_end) ==
    IF expected_end > Len(data) THEN error(v, "overflow", Min(expected_end, Len(data)))
    ELSE [v EXCEPT !.pos = expected_end]

\* The end of _map and _set, c being the cursor after the header.
SizedEnd(data, v, c) ==
    IF ~c.ok THEN [v EXCEPT !.ok = FALSE] ELSE EndsAt(data, v, c.pos + Head(c.got).dsz)

\* The end of _bool: the declared size must be 0.
BoolEnd(v, c) ==
    IF ~c.ok THEN [v EXCEPT !.ok = FALSE]
    ELSE IF Head(c.got)._sz # 0 THEN error(v, "bool_size", c.pos)
    ELSE [v EXCEPT !.pos = c.pos]

\* _bool: index, size, value byte.
_bool(data, v) ==
    LET idx == IntAt(data, Cursor(v.pos))
        _sz == Keep(IntAt(data, idx), "_sz")
        val == ByteAt(data, _sz)
    IN BoolEnd(v, val)

expected_sizes(ptype) ==
    CASE ptype \in {S_IntProperty, S_UInt32Property, S_FloatProperty} -> 4
      [] ptype \in {S_DoubleProperty, S_Int64Property, S_UInt64Property} -> 8
      [] ptype \in {S_Int16Property, S_UInt16Property} -> 2
      [] OTHER -> 0

\* The end of _simple: the checks of the declared size dsz.
SimpleEnd(data, ptype, v, c) ==
    IF ~c.ok THEN [v EXCEPT !.ok = FALSE]
    ELSE IF Head(c.got).dsz < 0 THEN error(v, "negative", c.pos)
    ELSE IF c.pos + Head(c.got).dsz > Len(data)
    THEN error(v, "overflow", Min(c.pos + Head(c.got).dsz, Len(data)))
    ELSE IF expected_sizes(ptype) # 0 /\ Head(c.got).dsz # expected_sizes(ptype)
    THEN error(v, "fixed_size", c.pos + Head(c.got).dsz)
    ELSE [v EXCEPT !.pos = c.pos + Head(c.got).dsz]

\* if tag: _extra = struct.unpack_from(...); pos += 4.
ExtraAt(data, tag) == IF tag.v # 0 THEN IntAt(data, tag) ELSE tag

\* _simple: index, size, tag (and the extra int32 of a non-zero tag).
_simple(data, ptype, v) ==
    LET idx == IntAt(data, Cursor(v.pos))
        dsz == Keep(IntAt(data, idx), "dsz")
        tag == ByteAt(data, dsz)
    IN SimpleEnd(data, ptype, v, ExtraAt(data, tag))

\* _map: flag, key type, value type, index, size, tag.  (No flag is read
\* between the key type and the value type.)
_map(data, v) ==
    LET _fk == IntAt(data, Cursor(v.pos))
        key_type == StringAtCursor(data, _fk)
        val_type == StringAtCursor(data, key_type)
        idx == IntAt(data, val_type)
        dsz == Keep(IntAt(data, idx), "dsz")
        tag == ByteAt(data, dsz)
    IN SizedEnd(data, v, tag)

\* _set: flag, element type, index, size, tag.
_set(data, v) ==
    LET _f == IntAt(data, Cursor(v.pos))
        elem_type == StringAtCursor(data, _f)
        idx == IntAt(data, elem_type)
        dsz == Keep(IntAt(data, idx), "dsz")
        tag == ByteAt(data, dsz)
    IN SizedEnd(data, v, tag)

type_sizes(child_type) ==
    CASE child_type \in {S_IntProperty, S_UInt32Property, S_FloatProperty} -> 4
      [] child_type \in {S_DoubleProperty, S_Int64Property, S_UInt64Property} -> 8
      [] child_type \in {S_Int16Property, S_UInt16Property} -> 2
      [] child_type \in {S_ByteProperty, S_BoolProperty} -> 1
      [] OTHER -> 0

RECURSIVE verify_properties(_, _, _)
RECURSIVE VerifyLoop(_, _, _, _)
RECURSIVE VerifyPair(_, _, _, _, _)
RECURSIVE handler(_, _, _)
RECURSIVE _struct(_, _)
RECURSIVE StructWalk(_, _, _)
RECURSIVE _array(_, _)
RECURSIVE ArrayWalk(_, _, _)
RECURSIVE VerifyElems(_, _, _, _, _)
RECURSIVE ElemWalked(_, _, _, _, _, _)

\* The position a handler returns after a nested walk: expected_end, unless
\* the walk raised or never returns.
Returned(inner, expected_end) ==
    IF ~inner.ok \/ inner.hang THEN inner ELSE [inner EXCEPT !.pos = expected_end]

\* _struct after its header: the body is walked as a nested property list.
StructWalk(data, v, c) ==
    IF ~c.ok THEN [v EXCEPT !.ok = FALSE]
    ELSE IF c.pos + Head(c.got).dsz > Len(data)
    THEN error(v, "overflow", Min(c.pos + Head(c.got).dsz, Len(data)))
    ELSE Returned(verify_properties(data, [v EXCEPT !.pos = c.pos],
                                    c.pos + Head(c.got).dsz),
                  c.pos + Head(c.got).dsz)

\* _struct: the header, then the body.
_struct(data, v) ==
    LET _f1 == IntAt(data, Cursor(v.pos))
        struct_name == StringAtCursor(data, _f1)
        _f2 == IntAt(data, struct_name)
        package == StringAtCursor(data, _f2)
        idx == IntAt(data, package)
        dsz == Keep(IntAt(data, idx), "dsz")
        tag == ByteAt(data, dsz)
    IN StructWalk(data, v, tag)

\* The separator probed before element i > 0 of an array of structs: four
\* zero bytes are skipped.
SkipSeparator(v, i, expected_end, sep) ==
    IF i > 0 /\ v.pos + 4 <= expected_end
    THEN IF ~sep.ok THEN [v EXCEPT !.ok = FALSE]
         ELSE IF sep.v = 0 THEN [v EXCEPT !.pos = @ + 4]
         ELSE v
    ELSE v

\* The loop over the elements of an array of structs after element i was
\* walked.  An element past the first that changes nothing is the last one
\* walked: those after it would repeat it.
ElemWalked(data, v, after, expected_end, i, length) ==
    IF ~after.ok \/ after.hang THEN after
    ELSE IF after.pos > expected_end THEN error(after, "overran", after.pos)
    ELSE IF i > 0 /\ after = v THEN v
    ELSE VerifyElems(data, after, expected_end, i + 1, length)

\* The loop over the elements of an array of structs, v.pos being ep.
VerifyElems(data, v, expected_end, i, length) ==
    IF i >= length \/ ~v.ok \/ v.hang THEN v
    ELSE ElemWalked(data, v,
             verify_properties(data,
                 SkipSeparator(v, i, expected_end, unpack_from(data, v.pos, FALSE)),
                 expected_end),
             expected_end, i, length)

\* _array after its header h, pos being where the elements start.
ArrayWalk(data, v, c) ==
    LET h == Head(c.got)
        is_struct == h.child_type.s = S_StructProperty /\ ~h.child_type.none
        elem_data_size == h.dsz - 4
        expected_end == c.pos + elem_data_size
    IN IF ~c.ok THEN [v EXCEPT !.ok = FALSE]
       ELSE IF expected_end > Len(data)
       THEN error(v, "overflow", Min(expected_end, Len(data)))
       ELSE IF h.dsz < 4 THEN error(v, "array_lt4", c.pos)
       ELSE IF is_struct /\ h.length > 0
       THEN Returned(VerifyElems(data, [v EXCEPT !.pos = c.pos], expected_end, 0,
                                 h.length),
                     expected_end)
       ELSE IF type_sizes(h.child_type.s) # 0 /\ ~h.child_type.none /\ h.length > 0
               /\ h.length * type_sizes(h.child_type.s) # elem_data_size
       THEN error(v, "array_bytes", expected_end)
       ELSE [v EXCEPT !.pos = expected_end]

\* The struct name and package of the header of an array of structs.
ArrayNamesAt(data, child_type) ==
    IF child_type.v.s = S_StructProperty /\ ~child_type.v.none
    THEN StringAtCursor(data, IntAt(data, StringAtCursor(data, IntAt(data, child_type))))
    ELSE child_type

\* _array: the header and the element count, then the elements.
_array(data, v) ==
    LET _f == IntAt(data, Cursor(v.pos))
        child_type == Keep(StringAtCursor(data, _f), "child_type")
        _pkg == ArrayNamesAt(data, child_type)
        idx == IntAt(data, _pkg)
        dsz == Keep(IntAt(data, idx), "dsz")
        tag == ByteAt(data, dsz)
        length == Keep(IntAt(data, tag), "length")
    IN ArrayWalk(data, v, length)

\* handler(name, ptype, pos, depth) of verify_properties.
handler(data, ptype, v) ==
    CASE ptype = S_StructProperty -> _struct(data, v)
      [] ptype = S_ArrayProperty -> _array(data, v)
      [] ptype = S_MapProperty -> _map(data, v)
      [] ptype = S_SetProperty -> _set(data, v)
      [] ptype = S_BoolProperty -> _bool(data, v)
      [] OTHER -> _simple(data, ptype, v)

\* An iteration of verify_properties after its pair pr was read.
VerifyPair(data, v, pr, end, seen) ==
    IF ~pr.ok THEN [v EXCEPT !.ok = FALSE]
    ELSE IF pr.none THEN v
    ELSE IF pr.name = S_None THEN [v EXCEPT !.pos = pr.pos]
    ELSE VerifyLoop(data,
                    handler(data, pr.ptype, [v EXCEPT !.pos = pr.pos, !.checked = @ + 1]),
                    end, seen \cup {v.pos})

\* The while loop of verify_properties; seen holds the positions at which an
\* iteration has started.
VerifyLoop(data, v, end, seen) ==
    IF ~v.ok \/ v.hang \/ ~(v.pos < end) THEN v
    ELSE IF v.pos \in seen THEN [v EXCEPT !.hang = TRUE]
    ELSE VerifyPair(data, v, _read_pair(data, v.pos, end), end, seen)

\* verify_properties(start, end), start being v.pos; the result's pos is the
\* position returned.
verify_properties(data, v, end) == VerifyLoop(data, v, end, {})

\* _find_property_start: the cursor after the header fields were replayed.
_find_property_start(data) ==
    LET version == IntAt(data, Cursor(12))
        file_type == StringAtCursor(data, Skip(version, 16))
        name == StringAtCursor(data, Skip(file_type, 8))
        controller == StringAtCursor(data, name)
        game_mode == StringAtCursor(data, controller)
        map_name == StringAtCursor(data, game_mode)
        map_path == StringAtCursor(data, map_name)
    IN Skip(map_path, 21)

\* What _verify_file gives when an exception escapes it.
Raised == [status |-> "error", result |-> FALSE, errors |-> <<>>, checked |-> 0]

\* _verify_file after the walk v: the trailing region and the verdict.
Verdict(data, v) ==
    IF v.hang THEN [Raised EXCEPT !.status = "hang"]
    ELSE IF ~v.ok THEN [Raised EXCEPT !.errors = v.errors, !.checked = v.checked]
    ELSE IF Len(data) - v.pos = 20
    THEN IF ~unpack_from(data, v.pos, TRUE).ok THEN Raised
         ELSE [status |-> "ok", result |-> Len(v.errors) = 0, errors |-> v.errors,
               checked |-> v.checked]
    ELSE IF Len(data) - v.pos > 0
    THEN [status |-> "ok", result |-> FALSE, errors |-> Append(v.errors, "trailing"),
          checked |-> v.checked]
    ELSE [status |-> "ok", result |-> Len(v.errors) = 0, errors |-> v.errors,
          checked |-> v.checked]

\* _verify_file after the start of the properties was found.
VerifyFrom(data, start) ==
    IF ~start.ok THEN Raised
    ELSE Verdict(data, verify_properties(data, Verifier(start.pos), Len(data)))

\* _verify_file on a file holding data: [status, result, errors, checked];
\* status is "ok" (result is the value returned), "error" (an exception
\* escaped) or "hang".
_verify_file(data) ==
    IF Len(data) < 50
    THEN [status |-> "ok", result |-> FALSE, errors |-> <<>>, checked |-> 0]
    ELSE VerifyFrom(data, _find_property_start(data))

(***************************************************************************)
(* The files drawn as inputs, built from the on-disk layout the reader     *)
(* expects (not with the writer above, so that the two stay independent).  *)
(***************************************************************************)
\* An NT-string as _safe_read_nt_string reads it.
InNT(s) == IF Len(s) = 0 THEN <<0, 0, 0, 0>> ELSE LE(Len(s) + 1, 4) \o s \o <<0>>

InI32(n) == SLE(n, 4)

\* A simple property (_read_asa_simple_header, then the value): index 0, tag 0.
InSimple(name, ptype, size, body) ==
    InNT(name) \o InNT(ptype) \o InI32(0) \o InI32(size) \o <<0>> \o body

\* A simple property with a non-zero tag and its extra int32.
InTagged(name, ptype, size, tag, extra, body) ==
    InNT(name) \o InNT(ptype) \o InI32(0) \o InI32(size) \o <<tag>> \o InI32(extra) \o body

\* A BoolProperty: index, size, then the value in the tag slot.
InBool(name, size, val) == InNT(name) \o InNT(S_BoolProperty) \o InI32(0) \o InI32(size) \o <<val>>

\* A StructProperty (_read_asa_struct_header, then the body).
InStruct(name, struct_name, data_size, body) ==
    InNT(name) \o InNT(S_StructProperty) \o InI32(1) \o InNT(struct_name) \o InI32(1)
        \o InNT(<<>>) \o InI32(0) \o InI32(data_size) \o <<0>> \o body

\* An ArrayProperty of a non-struct child type (_read_asa_array_header).
InArray(name, child_type, data_size, length, body) ==
    InNT(name) \o InNT(S_ArrayProperty) \o InI32(1) \o InNT(child_type) \o InI32(0)
        \o InI32(data_size) \o <<0>> \o InI32(length) \o body

\* An ArrayProperty of StructProperty.
InStructArray(name, struct_name, data_size, length, body) ==
    InNT(name) \o InNT(S_ArrayProperty) \o InI32(1) \o InNT(S_StructProperty)
        \o InI32(1) \o InNT(struct_name) \o InI32(1) \o InNT(<<>>) \o InI32(0)
        \o InI32(data_size) \o <<0>> \o InI32(length) \o body

\* A MapProperty (_read_asa_map_property).
InMap(name, key_type, val_type, body) ==
    InNT(name) \o InNT(S_MapProperty) \o InI32(1) \o InNT(key_type) \o InI32(1)
        \o InNT(val_type) \o InI32(0) \o InI32(Len(body)) \o <<0>> \o body

\* A SetProperty (_read_asa_set_property).
InSet(name, elem_type, body) ==
    InNT(name) \o InNT(S_SetProperty) \o InI32(1) \o InNT(elem_type) \o InI32(0)
        \o InI32(Len(body)) \o <<0>> \o body

\* The envelope _load reads before the property section: version, then
\* file_type "PL", name "P", game_mode "G", the other strings empty.
InHeader(version) ==
    InI32(1) \o InI32(2) \o InI32(3) \o InI32(version) \o Zeros(16) \o InNT(<<80, 76>>)
        \o InI32(0) \o InI32(5) \o InNT(<<80>>) \o InNT(<<>>) \o InNT(<<71>>)
        \o InNT(<<>>) \o InNT(<<>>) \o Zeros(12) \o InI32(7) \o InI32(0) \o <<0>>

\* A whole file: envelope, properties, the None terminator, trailing bytes.
InFile(props, trailing) == InHeader(1) \o props \o InNT(S_None) \o trailing

(***************************************************************************)
(* The catalogue of inputs.  Names are one letter; the values are small.   *)
(***************************************************************************)
\* The longest sequence of core properties in a drawn file.
MaxProps == 3

IntA == InSimple(<<65>>, S_IntProperty, 4, InI32(42))

IntB == InSimple(<<66>>, S_IntProperty, 4, InI32(7))

\* A second property named A (an indexed duplicate).
IntA2 == InSimple(<<65>>, S_IntProperty, 4, InI32(9))

CoreBlocks == {IntA, IntB, IntA2}

RECURSIVE Flatten(_)
Flatten(q) == IF Len(q) = 0 THEN <<>> ELSE q[1] \o Flatten(Tail(q))

\* One element of an array of structs: a property list and its None.
ElemA == IntA \o InNT(S_None)

ElemB == IntB \o InNT(S_None)

\* "Vector"
S_Vector == <<86, 101, 99, 116, 111, 114>>

\* "EnumProperty", a child type no reader knows.
S_EnumProperty == <<69, 110, 117, 109, 80, 114, 111, 112, 101, 114, 116, 121>>

\* Well-formed properties of each kind the codec distinguishes.
WellFormedBlocks ==
    {InSimple(<<83>>, S_StrProperty, 7, InNT(<<104, 105>>)),
     InSimple(<<83>>, S_StrProperty, 4, InNT(<<>>)),
     InSimple(<<78>>, S_NameProperty, 6, InNT(<<110>>)),
     InSimple(<<89>>, S_ByteProperty, 1, <<5>>),
     InSimple(<<89>>, S_ByteProperty, 2, <<5, 6>>),
     InSimple(<<68>>, S_DoubleProperty, 8, <<1, 2, 3, 0, 0, 0, 0, 0>>),
     InSimple(<<72>>, S_Int16Property, 2, <<254, 255>>),
     InBool(<<70>>, 0, 1),
     InTagged(<<73>>, S_IntProperty, 4, 1, 3, InI32(5)),
     InSimple(<<79>>, S_ObjectProperty, 4, <<255, 255, 255, 255>>),
     InSimple(<<79>>, S_ObjectProperty, 8, <<0, 0, 0, 0, 255, 255, 255, 255>>),
     InSimple(<<79>>, S_ObjectProperty, 4, InI32(7)),
     InSimple(<<79>>, S_ObjectProperty, 10, InI32(1) \o InNT(<<112>>)),
     InSimple(<<79>>, S_ObjectProperty, 5, <<1, 2, 3, 4, 5>>),
     InSimple(<<81>>, S_SoftObjectProperty, 16, InNT(<<97>>) \o InNT(<<98>>) \o InNT(<<>>)),
     InStruct(<<84>>, <<86>>, Len(ElemA), ElemA),
     InStruct(<<84>>, <<86>>, Len(IntA \o ElemB), IntA \o ElemB),
     InStruct(<<84>>, S_Vector, 12, <<1, 2, 3, 4, 5, 6, 7, 8, 9, 10, 11, 12>>),
     InStruct(<<84>>, <<86>>, 0, <<>>),
     InStruct(<<84>>, <<86>>, Len(IntA) + 3, IntA \o Zeros(3)),
     InStruct(<<84>>, <<86>>, Len(InStruct(<<85>>, <<86>>, Len(ElemA), ElemA)) + 9,
              InStruct(<<85>>, <<86>>, Len(ElemA), ElemA) \o InNT(S_None)),
     InArray(<<82>>, S_IntProperty, 12, 2, InI32(1) \o InI32(2)),
     InArray(<<82>>, S_StrProperty, 16, 2, InNT(<<120>>) \o InNT(<<121>>)),
     InArray(<<82>>, S_IntProperty, 4, 0, <<>>),
     InArray(<<82>>, S_ByteProperty, 7, 3, <<1, 2, 3>>),
     InArray(<<82>>, S_ObjectProperty, 14, 1, InI32(1) \o InNT(<<112>>)),
     InArray(<<82>>, S_SoftObjectProperty, 20, 1,
             InNT(<<97>>) \o InNT(<<98>>) \o InNT(<<>>)),
     InArray(<<82>>, S_EnumProperty, 7, 1, <<9, 8, 7>>),
     InStructArray(<<82>>, <<86>>, 4 + Len(ElemA) + 4 + Len(ElemB), 2,
                   ElemA \o InI32(0) \o ElemB),
     InStructArray(<<82>>, <<86>>, 4 + Len(ElemA) + Len(ElemB), 2, ElemA \o ElemB),
     InStructArray(<<82>>, <<86>>, 4 + Len(ElemA), 1, ElemA),
     InMap(<<77>>, S_NameProperty, S_IntProperty, Zeros(8)),
     InMap(<<77>>, S_NameProperty, S_IntProperty,
           InI32(0) \o InI32(1) \o InNT(<<107>>) \o InI32(3)),
     InSet(<<69>>, S_NameProperty, InI32(0) \o InI32(2) \o InNT(<<97>>) \o InNT(<<98>>)),
     InSet(<<69>>, S_IntProperty, InI32(0) \o InI32(1) \o InI32(5))}

\* The bytes of a struct's header, from its name to its tag.
StructHeaderLen == Len(InStruct(<<84>>, <<86>>, 0, <<>>))

\* A StrProperty whose declared size (7) is that of its bytes, but whose
\* NT-string length field says 1000.
LongStr == InSimple(<<83>>, S_StrProperty, 7, LE(1000, 4) \o <<104, 105, 0>>)

\* Malformed properties whose declared byte range is exactly their own
\* bytes: what follows them in a file lies outside that range.
MalformedBlocks ==
    {LongStr,
     InArray(<<82>>, S_IntProperty, 12, 3, InI32(1) \o InI32(2)),
     InStruct(<<84>>, <<86>>, Len(LongStr \o ElemB), LongStr \o ElemB),
     InStructArray(<<82>>, <<86>>, 4 + Len(LongStr \o ElemB), 1, LongStr \o ElemB),
     InBool(<<70>>, 1, 1)}

\* Malformed properties whose declared sizes are negative, or reach into
\* the bytes that follow them.
OverlappingBlocks ==
    {InStruct(<<84>>, <<86>>, -StructHeaderLen, <<>>),
     InStruct(<<84>>, <<86>>, -1000, <<>>),
     InStruct(<<84>>, <<86>>, -4, <<>>),
     InStruct(<<84>>, <<86>>, Len(IntA) - 2, IntA),
     InSimple(<<83>>, S_StrProperty, 9, InNT(<<104, 105>>)),
     InArray(<<82>>, S_IntProperty, 3, 1, <<>>),
     InStructArray(<<82>>, <<86>>, 4 + Len(IntA) + 4 + Len(ElemB), 2,
                   InSimple(<<65>>, S_IntProperty, -1000, <<>>) \o InI32(0) \o ElemB),
     LE(1000, 4) \o <<65, 0>>}

\* The trailing region: absent, or int32 0 and a 16-byte GUID.
Trailings == {<<>>, Zeros(20)}

\* A StrProperty S holding "hi".
StrS == InSimple(<<83>>, S_StrProperty, 7, InNT(<<104, 105>>))

\* ObjectProperty bodies of the path shape (an int32 flag, then the path as
\* an NT-string): flags other than 1, and the empty path.
ObjectPathBlocks ==
    {InSimple(<<79>>, S_ObjectProperty, 10, InI32(0) \o InNT(<<112>>)),
     InSimple(<<79>>, S_ObjectProperty, 10, InI32(2) \o InNT(<<112>>)),
     InSimple(<<79>>, S_ObjectProperty, 9, InI32(1) \o <<1, 0, 0, 0, 0>>)}

\* The numbers of zero bytes after the children of a padded struct.
Paddings == {0, 1, 4, 5, 8}

\* A struct whose body is its child S and k zero bytes, without None.
PaddedStruct(k) == InStruct(<<84>>, <<86>>, Len(StrS) + k, StrS \o Zeros(k))

\* Structs holding the child S: terminated by None, and padded.
StrStructBlocks ==
    {InStruct(<<84>>, <<86>>, Len(StrS) + 9, StrS \o InNT(S_None))}
        \cup {PaddedStruct(k) : k \in Paddings}

\* An array of three structs with a separator in each gap.
SepArray ==
    InStructArray(<<82>>, <<86>>, 4 + 2 * Len(ElemA) + Len(ElemB) + 8, 3,
                  ElemA \o InI32(0) \o ElemB \o InI32(0) \o ElemA)

\* An array of three structs without separators.
PlainArray ==
    InStructArray(<<82>>, <<86>>, 4 + 2 * Len(ElemA) + Len(ElemB), 3,
                  ElemA \o ElemB \o ElemA)

StructArrayBlocks == {SepArray, PlainArray}

\* The value bytes of the BoolProperty files, besides 1.
BoolBytes == {0, 2, 128, 255}

BoolBlocks == {InBool(<<70>>, 0, v) : v \in BoolBytes}

\* NT-string encodings as the body of a StrProperty: the length field 1 (a
\* terminator only), a terminator byte other than 0, a NUL character, a
\* byte above 127, and two characters.
NTBodies ==
    {<<1, 0, 0, 0, 0>>,
     <<2, 0, 0, 0, 65, 0>>,
     <<2, 0, 0, 0, 65, 1>>,
     <<2, 0, 0, 0, 0, 0>>,
     <<2, 0, 0, 0, 200, 0>>,
     <<3, 0, 0, 0, 65, 127, 0>>}

NTBlocks == {InSimple(<<83>>, S_StrProperty, Len(x), x) : x \in NTBodies}

\* Arrays whose declared payload is longer than their elements: zero bytes
\* follow them, as _write_asa_property pads an array that shrank.
PaddedArrayBlocks ==
    {InArray(<<82>>, S_IntProperty, 12, 1, InI32(1) \o Zeros(4)),
     InArray(<<82>>, S_IntProperty, 8, 0, Zeros(4)),
     InArray(<<82>>, S_StrProperty, 12, 1, InNT(<<120>>) \o Zeros(2))}

\* Further shapes of a single property.
VariantBlocks ==
    ObjectPathBlocks \cup StrStructBlocks \cup StructArrayBlocks \cup BoolBlocks
        \cup NTBlocks \cup PaddedArrayBlocks

\* Version fields other than 1.
BadVersions == {0, 2}

\* Trailing regions of other lengths than 0 and 20.
OddTrailings == {<<9, 8, 7>>, Zeros(21)}

\* Properties whose declared size is negative: an array, a map, a set and
\* two simple ones (negative structs are among the overlapping blocks).
NegativeBlocks ==
    {InArray(<<82>>, S_IntProperty, -4, 0, <<>>),
     InNT(<<77>>) \o InNT(S_MapProperty) \o InI32(1) \o InNT(S_NameProperty) \o InI32(1)
         \o InNT(S_IntProperty) \o InI32(0) \o InI32(-4) \o <<0>>,
     InNT(<<69>>) \o InNT(S_SetProperty) \o InI32(1) \o InNT(S_IntProperty) \o InI32(0)
         \o InI32(-4) \o <<0>>,
     InSimple(<<65>>, S_IntProperty, -4, <<>>),
     InSimple(<<83>>, S_StrProperty, -4, <<>>)}

\* A set and a struct without a body, declaring the size data_size.
SizedSet(data_size) ==
    InNT(<<69>>) \o InNT(S_SetProperty) \o InI32(1) \o InNT(S_IntProperty) \o InI32(0)
        \o InI32(data_size) \o <<0>>

SizedStruct(data_size) == InStruct(<<84>>, <<86>>, data_size, <<>>)

\* The header of a ByteProperty Q that declares n value bytes.
SkipHeader(n) == InSimple(<<81>>, S_ByteProperty, n, <<>>)

\* A ByteProperty Y whose value is the header of a ByteProperty Q spanning
\* the property x that follows Y, then x with the negative size that leads
\* from its end back to Q.
Backward(x, sized) ==
    InSimple(<<89>>, S_ByteProperty, Len(SkipHeader(Len(x))), SkipHeader(Len(x)))
        \o sized

BackwardBlocks ==
    {Backward(SizedSet(0), SizedSet(-(Len(SkipHeader(0)) + Len(SizedSet(0))))),
     Backward(SizedStruct(0), SizedStruct(-(Len(SkipHeader(0)) + Len(SizedStruct(0)))))}

\* Fixed-width properties whose declared size is not their width, the bytes
\* declared being there, and an array whose payload is half its elements'.
WidthBlocks ==
    {InSimple(<<65>>, S_IntProperty, 8, InI32(42) \o Zeros(4)),
     InSimple(<<76>>, S_FloatProperty, 8, <<0, 0, 128, 63, 0, 0, 0, 0>>),
     InSimple(<<72>>, S_Int16Property, 4, <<254, 255, 0, 0>>),
     InArray(<<82>>, S_IntProperty, 8, 2, InI32(1))}

\* A struct that declares 1000 body bytes and holds 3.
LongStruct == InStruct(<<84>>, <<86>>, 1000, <<1, 2, 3>>)

\* Properties cut off inside their sub-header: [block, bytes kept].
CutBlocks ==
    {<<IntA, Len(InNT(<<65>>) \o InNT(S_IntProperty)) + 2>>,
     <<IntA, Len(IntA) - 5>>,
     <<InStruct(<<84>>, <<86>>, 0, <<>>), StructHeaderLen - 1>>,
     <<InMap(<<77>>, S_NameProperty, S_IntProperty, Zeros(8)),
       Len(InNT(<<77>>) \o InNT(S_MapProperty)) + 6>>,
     <<InArray(<<82>>, S_IntProperty, 4, 0, <<>>),
       Len(InArray(<<82>>, S_IntProperty, 4, 0, <<>>)) - 2>>}

\* The lengths at which the envelope is cut off.
CutEnvelopes == {50, 70}

\* Files that end early: inside the envelope, inside a property's
\* sub-header, or before the end of a struct's declared body.
CutFiles ==
    {SubSeq(InHeader(1), 1, n) : n \in CutEnvelopes}
        \cup {InHeader(1) \o p \o SubSeq(c[1], 1, c[2]) : c \in CutBlocks, p \in {<<>>, IntA}}
        \cup {InFile(LongStruct \o IntB, t) : t \in Trailings}

\* A property whose name is the byte 200, which is no ASCII character.
HighName == InSimple(<<200>>, S_IntProperty, 4, InI32(1))

\* Bytes at which reading a property raises: a name and a type whose
\* length field says 1000, so that the next read finds the end of the file;
\* a struct sub-header whose struct name does the same; an ObjectProperty
\* and a MapProperty whose size is -4, which read(-4) refuses.
RaisingBlocks ==
    {LE(1000, 4) \o <<65, 0>>,
     InNT(<<83>>) \o LE(1000, 4) \o <<65, 0>>,
     InNT(<<85>>) \o InNT(S_StructProperty) \o InI32(1) \o LE(1000, 4) \o <<86, 0>>,
     InSimple(<<79>>, S_ObjectProperty, -4, <<>>),
     InNT(<<77>>) \o InNT(S_MapProperty) \o InI32(1) \o InNT(S_NameProperty) \o InI32(1)
         \o InNT(S_IntProperty) \o InI32(0) \o InI32(-4) \o <<0>>}

\* The properties that precede the raising one in its set.
GoodPrefixes == {IntA, IntA \o IntB}

\* A struct whose body is the properties good followed by the bytes bad.
FailingStruct(good, bad) == InStruct(<<84>>, <<86>>, Len(good \o bad), good \o bad)

\* An array of one struct whose element is good followed by bad.
FailingArray(good, bad) ==
    InStructArray(<<82>>, <<86>>, 4 + Len(good \o bad), 1, good \o bad)

\* The files that hold a set in which a property raises, B following it.
FailingFiles ==
    {InFile(FailingStruct(g, x) \o IntB, t) : g \in GoodPrefixes, x \in RaisingBlocks,
                                              t \in Trailings}
        \cup {InFile(FailingArray(IntA, x) \o IntB, Zeros(20)) : x \in RaisingBlocks}

\* The files that hold the block x first: alone or followed by B.
FilesOf(x) == {InFile(x \o y, t) : y \in {<<>>, IntB}, t \in Trailings}

\* The files drawn: [bytes, class]; class is "wf" for a well-formed file,
\* "malformed" and "overlap" after the kind of its malformed property, which
\* the property B follows; "variant" for the further shapes, "version" for
\* a version other than 1, "trail" for the other trailing regions,
\* "negative" for negative declared sizes, "width" for fixed-width size
\* mismatches, "cut" for a file that ends early, "failing" for a nested
\* set in which a read raises and "name" for a property name outside ASCII.
InputFiles ==
    {[bytes |-> InFile(Flatten(q), t), class |-> "wf"] :
        q \in UNION {[1..n -> CoreBlocks] : n \in 0..MaxProps}, t \in Trailings}
    \cup {[bytes |-> InFile(x \o y, t), class |-> "wf"] :
            x \in WellFormedBlocks, y \in {<<>>, IntB}, t \in Trailings}
    \cup {[bytes |-> InFile(p \o x \o IntB, t), class |-> "malformed"] :
            x \in MalformedBlocks, p \in {<<>>, IntA}, t \in Trailings}
    \cup {[bytes |-> InFile(p \o x \o IntB, t), class |-> "overlap"] :
            x \in OverlappingBlocks, p \in {<<>>, IntA}, t \in Trailings}
    \cup {[bytes |-> b, class |-> "variant"] :
            b \in UNION {FilesOf(x) : x \in VariantBlocks}}
    \cup {[bytes |-> InHeader(v) \o p \o InNT(S_None) \o t, class |-> "version"] :
            v \in BadVersions, p \in {<<>>, IntA}, t \in Trailings}
    \cup {[bytes |-> InFile(p, t), class |-> "trail"] :
            p \in {<<>>, IntA, IntA \o IntB}, t \in OddTrailings}
    \cup {[bytes |-> InFile(p \o x \o IntB, t), class |-> "negative"] :
            x \in NegativeBlocks, p \in {<<>>, IntA}, t \in Trailings}
    \cup {[bytes |-> InFile(x, t), class |-> "negative"] :
            x \in BackwardBlocks, t \in Trailings}
    \cup {[bytes |-> b, class |-> "width"] : b \in UNION {FilesOf(x) : x \in WidthBlocks}}
    \cup {[bytes |-> b, class |-> "cut"] : b \in CutFiles}
    \cup {[bytes |-> b, class |-> "failing"] : b \in FailingFiles}
    \cup {[bytes |-> InFile(p \o HighName \o IntB, t), class |-> "name"] :
            p \in {<<>>, IntA}, t \in Trailings}

(***************************************************************************)
(* The state machine: one input file is loaded, the tree is edited (by the *)
(* caller, or as JSON in the tool's editor), and the result is saved,      *)
(* verified and loaded back.                                               *)
(***************************************************************************)
\* The number of edits made between a load and a save.
MaxEdits == 1

VARIABLES
    file,      \* the input file: [bytes, class]
    pc,        \* "start", "loaded", "failed", "hung", "saved" or "verified"
    pld,       \* the PlayerLocalData object
    over,      \* whether a bounded parse of the load read at or past its data_end
    json,      \* the document in the JSON editor: <<>> or <<document>>
    disk,      \* the bytes of the output file
    saved,     \* "no", "ok" (save returned) or "raised"
    verdict,   \* the result of _verify_file on the output file, status "none" before
    back,      \* the result of loading the output file: <<>> or <<[status, obj, over]>>
    log        \* what was done since the load: [edits, value, elems, child, json,
               \* recalc]

vars == <<file, pc, pld, over, json, disk, saved, verdict, back, log>>

\* What the output file holds before the first save: the bytes "OLD".
Previous == <<79, 76, 68>>

NoVerdict == [status |-> "none", result |-> FALSE, errors |-> <<>>, checked |-> 0]

Init ==
    /\ file \in InputFiles
    /\ pc = "start"
    /\ pld = NewPlayerLocalData
    /\ over = FALSE
    /\ json = <<>>
    /\ disk = Previous
    /\ saved = "no"
    /\ verdict = NoVerdict
    /\ back = <<>>
    /\ log = [edits |-> 0, value |-> FALSE, elems |-> FALSE, child |-> FALSE,
              json |-> FALSE, recalc |-> FALSE]

\* PlayerLocalData(file_path): __init__ calls _load.
Load ==
    /\ pc = "start"
    /\ \E l \in {_load(file.bytes)} :
          /\ pc' = CASE l.status = "ok" -> "loaded"
                     [] l.status = "hang" -> "hung"
                     [] OTHER -> "failed"
          /\ pld' = l.obj
          /\ over' = l.over
    /\ UNCHANGED <<file, json, disk, saved, verdict, back, log>>

\* A call of recalculate_sizes by the caller.
RecalculateSizes ==
    /\ pc = "loaded"
    /\ ~log.recalc
    /\ \E r \in {recalculate_sizes(pld)} :
          /\ pld' = r.v
          /\ pc' = IF r.ok THEN "loaded" ELSE "failed"
    /\ log' = [log EXCEPT !.recalc = TRUE]
    /\ UNCHANGED <<file, over, json, disk, saved, verdict, back>>

SimpleTypes ==
    FixedTypes \cup {S_StrProperty, S_NameProperty, S_ByteProperty, S_ObjectProperty,
                     S_SoftObjectProperty}

\* The values an edit may give to the entry e of a simple property.
NewValues(e) ==
    CASE e._type \in {S_StrProperty, S_NameProperty} ->
             <<VStr(<<>>), VStr(<<113, 113, 113>>)>>
      [] e._type = S_ObjectProperty -> <<VNone, VInt(5), VStr(<<112, 113>>)>>
      [] e._type = S_IntProperty -> <<VInt(100)>>
      [] OTHER -> <<>>

\* The value x is not the value y.
Differs(x, y) == IF x.t # y.t THEN TRUE ELSE x.v # y.v

\* The element lists an edit gives to the entry e of an array: none, all but
\* the last, and one more.
NewElements(e) ==
    IF e.value.t # "list" THEN <<>>
    ELSE IF Len(e.value.v) = 0
    THEN (IF e._child_type = S_IntProperty THEN <<<<1>>>> ELSE <<>>)
    ELSE <<<<>>, SubSeq(e.value.v, 1, Len(e.value.v) - 1),
           Append(e.value.v, e.value.v[1])>>

\* The properties of a tree that hold one entry of a simple type / one array.
SimpleAt(props) ==
    {i \in 1..Len(props) : Len(props[i].items) = 1
                           /\ props[i].items[1]._type \in SimpleTypes}

ArrayAt(props) ==
    {i \in 1..Len(props) : Len(props[i].items) = 1
                           /\ props[i].items[1]._type = S_ArrayProperty}

\* The caller assigns data[name]['value'] of a simple property.
EditValue ==
    /\ pc = "loaded"
    /\ log.edits < MaxEdits
    /\ \E i \in SimpleAt(pld.data) :
          \E k \in 1..Len(NewValues(pld.data[i].items[1])) :
             /\ Differs(NewValues(pld.data[i].items[1])[k], pld.data[i].items[1].value)
             /\ pld' = [pld EXCEPT !.data[i].items[1].value = NewValues(pld.data[i].items[1])[k]]
    /\ log' = [log EXCEPT !.edits = @ + 1, !.value = TRUE]
    /\ UNCHANGED <<file, pc, over, json, disk, saved, verdict, back>>

\* The caller assigns data[name]['value'] of an array, and nothing else.
EditElements ==
    /\ pc = "loaded"
    /\ log.edits < MaxEdits
    /\ \E i \in ArrayAt(pld.data) :
          \E k \in 1..Len(NewElements(pld.data[i].items[1])) :
             pld' = [pld EXCEPT !.data[i].items[1].value =
                                    VList(NewElements(pld.data[i].items[1])[k])]
    /\ log' = [log EXCEPT !.edits = @ + 1, !.elems = TRUE]
    /\ UNCHANGED <<file, pc, over, json, disk, saved, verdict, back>>

\* The properties of a tree that hold one struct.
StructAt(props) ==
    {i \in 1..Len(props) : Len(props[i].items) = 1
                           /\ props[i].items[1]._type = S_StructProperty}

\* The caller assigns data[name]['data'][child]['value'] inside a struct.
EditChild ==
    /\ pc = "loaded"
    /\ log.edits < MaxEdits
    /\ \E i \in StructAt(pld.data) :
          \E j \in SimpleAt(pld.data[i].items[1].data) :
             \E k \in 1..Len(NewValues(pld.data[i].items[1].data[j].items[1])) :
                /\ Differs(NewValues(pld.data[i].items[1].data[j].items[1])[k],
                           pld.data[i].items[1].data[j].items[1].value)
                /\ pld' = [pld EXCEPT !.data[i].items[1].data[j].items[1].value =
                                          NewValues(pld.data[i].items[1].data[j].items[1])[k]]
    /\ log' = [log EXCEPT !.edits = @ + 1, !.child = TRUE]
    /\ UNCHANGED <<file, pc, over, json, disk, saved, verdict, back>>

\* _refresh_json: the editor shows to_json() of the object.  (json.dumps and
\* json.loads keep the document's strings, integers, null, lists and dicts.)
ToDict ==
    /\ pc = "loaded"
    /\ json = <<>>
    /\ json' = <<to_dict(pld)>>
    /\ UNCHANGED <<file, pc, pld, over, disk, saved, verdict, back, log>>

\* The user changes a simple property's value in the editor's text.
EditJson ==
    /\ pc = "loaded"
    /\ json # <<>>
    /\ ~log.json
    /\ log.edits < MaxEdits
    /\ \E i \in SimpleAt(json[1].data) :
          \E k \in 1..Len(NewValues(json[1].data[i].items[1])) :
             /\ Differs(NewValues(json[1].data[i].items[1])[k],
                        json[1].data[i].items[1].value)
             /\ json' = <<[json[1] EXCEPT !.data[i].items[1].value =
                                              NewValues(json[1].data[i].items[1])[k]]>>
    /\ log' = [log EXCEPT !.edits = @ + 1, !.value = TRUE]
    /\ UNCHANGED <<file, pc, pld, over, disk, saved, verdict, back>>

\* _apply_json: the object is rebuilt from the editor's text.
ApplyJson ==
    /\ pc = "loaded"
    /\ json # <<>>
    /\ ~log.json
    /\ \E r \in {from_dict(json[1])} :
          IF r.ok THEN pld' = r.v /\ log' = [log EXCEPT !.json = TRUE]
          ELSE UNCHANGED <<pld, log>>
    /\ UNCHANGED <<file, pc, over, json, disk, saved, verdict, back>>

\* _clear_array on an array of the document: value, length and _size are
\* set by hand, and the object is rebuilt from the new text.
ClearArray ==
    /\ pc = "loaded"
    /\ json # <<>>
    /\ ~log.json
    /\ log.edits < MaxEdits
    /\ \E i \in ArrayAt(json[1].data) :
          /\ json' = <<[json[1] EXCEPT !.data[i].items[1].value = VList(<<>>),
                                       !.data[i].items[1].length = 0,
                                       !.data[i].items[1]._size = 4]>>
          /\ \E r \in {from_dict(json'[1])} :
                /\ IF r.ok THEN pld' = r.v ELSE UNCHANGED pld
                /\ log' = [log EXCEPT !.edits = @ + 1, !.json = r.ok]
    /\ UNCHANGED <<file, pc, over, disk, saved, verdict, back>>

\* save(file_path) on the output file.
Save ==
    /\ pc = "loaded"
    /\ \E s \in {save(pld, disk)} :
          /\ pld' = s.obj
          /\ disk' = s.file
          /\ saved' = IF s.ok THEN "ok" ELSE "raised"
    /\ pc' = "saved"
    /\ UNCHANGED <<file, over, json, verdict, back, log>>

\* cmd_verify / _run_verify on the output file.
Verify ==
    /\ pc = "saved"
    /\ verdict.status = "none"
    /\ verdict' = _verify_file(disk)
    /\ UNCHANGED <<file, pc, pld, over, json, disk, saved, back, log>>

\* cmd_verify on the input file: the command verifies it and exits.
VerifyInput ==
    /\ pc = "start"
    /\ verdict' = _verify_file(file.bytes)
    /\ pc' = "verified"
    /\ UNCHANGED <<file, pld, over, json, disk, saved, back, log>>

\* PlayerLocalData(file_path) on the output file.
Reload ==
    /\ pc = "saved"
    /\ back = <<>>
    /\ back' = <<_load(disk)>>
    /\ UNCHANGED <<file, pc, pld, over, json, disk, saved, verdict, log>>

Next ==
    \/ Load
    \/ RecalculateSizes
    \/ EditValue
    \/ EditElements
    \/ EditChild
    \/ ToDict
    \/ EditJson
    \/ ApplyJson
    \/ ClearArray
    \/ Save
    \/ Verify
    \/ VerifyInput
    \/ Reload

Spec == Init /\ [][Next]_vars

(***************************************************************************)
(* Properties.  Each is stated over the state machine above; the states it *)
(* speaks about are picked out by pc, file.class and log.                  *)
(***************************************************************************)
\* The run so far is load, (recalculate_sizes,) save of a well-formed file:
\* no edit was made and the object was not rebuilt from a document.
Untouched == file.class = "wf" /\ log.edits = 0 /\ ~log.json

\* C1: for every well-formed file, loading it, calling recalculate_sizes and
\* saving writes bytes identical to the input.
C1_LoadRecalcSaveIsIdentity ==
    (pc = "saved" /\ Untouched /\ log.recalc) => (saved = "ok" /\ disk = file.bytes)

\* C2: for every parsed tree, parse -> to_dict -> from_dict ->
\* recalculate_sizes -> serialize writes the same bytes as parse -> serialize
\* of that tree.  (After Save, pld.data is the recalculated tree that was
\* serialised.)
C2_DocumentRoundTripKeepsBytes ==
    (pc = "saved" /\ saved = "ok" /\ file.class = "wf" /\ log.json /\ log.edits = 0
         /\ ~log.recalc)
        => _serialize_properties(pld.data, TRUE)
               = _serialize_properties(_load(file.bytes).obj.data, TRUE)

\* C3: for every file written by save from a tree obtained by loading a
\* well-formed input (directly, or through to_dict/from_dict), _verify_file
\* reports zero errors and returns True.
C3_SavedFilesVerify ==
    (verdict.status # "none" /\ saved = "ok" /\ file.class = "wf" /\ log.edits = 0)
        => (verdict.status = "ok" /\ verdict.result /\ Len(verdict.errors) = 0)

\* The size _write_asa_property declares in the header of the simple entry e.
DeclaredSize(e) == _compute_value_size(e._type, e.value, e._size).v

\* The value bytes _write_asa_property writes after the header of e.
ValueBytes(e) == _write_asa_property_value(Writer, e._type, e.value, DeclaredSize(e)).out

\* C4: after values were edited, every simple property written by save
\* declares a size equal to the number of value bytes written after its
\* header.
C4_DeclaredSizeIsValueLength ==
    (pc = "saved" /\ saved = "ok" /\ file.class = "wf" /\ log.value /\ ~log.json)
        => \A i \in SimpleAt(pld.data) :
               DeclaredSize(pld.data[i].items[1]) = Len(ValueBytes(pld.data[i].items[1]))

\* The entry b read back for the entry a under the same name: for an array
\* the same elements, for any other entry the same bytes when written.
SameEntry(name, a, b) ==
    IF a._type = S_ArrayProperty
    THEN /\ b._type = S_ArrayProperty
         /\ b._child_type = a._child_type
         /\ b.value.t = a.value.t
         /\ _serialize_array_elements(b._child_type, b.value, b._has_sep)
                = _serialize_array_elements(a._child_type, a.value, a._has_sep)
    ELSE _write_asa_property(Writer, name, b) = _write_asa_property(Writer, name, a)

\* The tree b read back holds the properties of the tree a, in order.
Intact(a, b) ==
    /\ Len(b) = Len(a)
    /\ \A i \in 1..Len(a) :
          /\ b[i].name = a[i].name
          /\ Len(b[i].items) = Len(a[i].items)
          /\ \A j \in 1..Len(a[i].items) :
                SameEntry(a[i].name, a[i].items[j], b[i].items[j])

\* C5: after the elements of an array were edited without touching _size or
\* length, save writes a length equal to the number of elements and a
\* data_size equal to 4 plus the serialized element bytes, and loading the
\* saved file returns the edited elements with every later property intact.
C5_EditedArrayIsResized ==
    (pc = "saved" /\ saved = "ok" /\ file.class = "wf" /\ log.elems /\ ~log.json
         /\ back # <<>>)
        => /\ \A i \in ArrayAt(pld.data) :
                 /\ pld.data[i].items[1].value.t = "list"
                        => pld.data[i].items[1].length = Len(pld.data[i].items[1].value.v)
                 /\ ArrayDataSize(pld.data[i].items[1],
                                  _serialize_array_elements(
                                      pld.data[i].items[1]._child_type,
                                      pld.data[i].items[1].value,
                                      pld.data[i].items[1]._has_sep))
                        = 4 + Len(_serialize_array_elements(
                                      pld.data[i].items[1]._child_type,
                                      pld.data[i].items[1].value,
                                      pld.data[i].items[1]._has_sep).out)
           /\ back[1].status = "ok"
           /\ Intact(pld.data, back[1].obj.data)

\* The data_size _write_asa_property writes in the header of the entry e.
WrittenSize(e) ==
    CASE e._type = S_StructProperty -> Len(StructInnerBytes(e.data, e.raw, e._size).v)
      [] e._type = S_ArrayProperty ->
             ArrayDataSize(e, _serialize_array_elements(e._child_type, e.value, e._has_sep))
      [] e._type = S_MapProperty -> Len(RawBytes(e.raw).v)
      [] e._type = S_SetProperty -> Len(SetPayload(e).v)
      [] e._type = S_BoolProperty -> 0
      [] OTHER -> DeclaredSize(e)

RECURSIVE Entries(_)
RECURSIVE EntriesOf(_)
RECURSIVE EntriesIn(_)

\* The entries of the property lists in elems, one after the other.
EntriesIn(elems) ==
    IF Len(elems) = 0 THEN <<>> ELSE Entries(elems[1]) \o EntriesIn(Tail(elems))

\* The entries stored under one name, each followed by those below it: the
\* data of a struct, the elements of a struct array.
EntriesOf(items) ==
    IF Len(items) = 0 THEN <<>>
    ELSE <<items[1]>>
         \o (IF items[1]._type = S_StructProperty THEN Entries(items[1].data)
             ELSE IF items[1]._type = S_ArrayProperty
                     /\ items[1]._child_type = S_StructProperty
                     /\ items[1].value.t = "list"
             THEN EntriesIn(items[1].value.v)
             ELSE <<>>)
         \o EntriesOf(Tail(items))

\* Every entry of a tree, as a sequence.
Entries(props) ==
    IF Len(props) = 0 THEN <<>> ELSE EntriesOf(props[1].items) \o Entries(Tail(props))

\* C6: after recalculate_sizes, the _size of every entry of the tree equals
\* the data_size the serializer writes for that entry.
C6_RecalculatedSizeIsWrittenSize ==
    (pc = "loaded" /\ Untouched /\ log.recalc)
        => \A k \in 1..Len(Entries(pld.data)) :
               Entries(pld.data)[k]._size = WrittenSize(Entries(pld.data)[k])

RECURSIVE OrderFrom(_, _, _)
\* The (name, type) pairs of the properties of a file in the order of their
\* bytes, as the verifier walks them from v.pos: at most n of them.
OrderFrom(data, v, n) ==
    IF n = 0 \/ ~v.ok \/ v.hang THEN <<>>
    ELSE LET pr == _read_pair(data, v.pos, Len(data))
         IN IF ~pr.ok \/ pr.none \/ pr.name = S_None THEN <<>>
            ELSE <<<<pr.name, pr.ptype>>>>
                     \o OrderFrom(data, handler(data, pr.ptype, [v EXCEPT !.pos = pr.pos]),
                                  n - 1)

\* The top-level properties of a file in the order of their bytes.
EntryOrder(data) ==
    OrderFrom(data, Verifier(_find_property_start(data).pos), MaxProps + 1)

\* C7: the serializer emits the entries of a property set in the same order
\* in which they appeared in the input bytes, also when a differently named
\* property lies between two occurrences of the same name.
C7_SerializedOrderIsInputOrder ==
    (pc = "saved" /\ saved = "ok" /\ Untouched) => EntryOrder(disk) = EntryOrder(file.bytes)

\* C8: while parse_asa_properties parses a set bounded by data_end, no read
\* touches a byte at offset >= data_end.
C8_BoundedParseStaysInside == pc = "loaded" => ~over

\* C9: parse_asa_properties terminates on every finite input: the loop never
\* returns to a position at which an earlier iteration started.
C9_ParseTerminates == pc # "hung"

\* C10: every well-formed property lying outside a malformed property's
\* declared byte range is still present in the tree returned by load: the
\* property B that follows the malformed one is there, with its value 7.
C10_FollowingPropertySurvives ==
    (pc = "loaded" /\ file.class = "malformed" /\ log.edits = 0 /\ ~log.json)
        => \E i \in 1..Len(pld.data) :
               /\ pld.data[i].name = <<66>>
               /\ Len(pld.data[i].items) = 1
               /\ pld.data[i].items[1]._type = S_IntProperty
               /\ pld.data[i].items[1].value = VInt(7)

\* The offset at which the properties of the drawn files start.
PropStart == Len(InHeader(1))

\* The simple header of the first property of the file b.
FirstHeader(b) == _read_asa_simple_header(b, _read_asa_pair(b, Stream(PropStart)))

\* The value bytes of the first property of the file b, a simple one.
FirstBody(b) == Take(b, FirstHeader(b).pos, FirstHeader(b).v.size)

\* The first property of the loaded file, as parsed: nothing was edited.
FirstAsParsed(ptype) ==
    /\ pc = "loaded" /\ file.class \in {"wf", "variant"} /\ log.edits = 0 /\ ~log.json
    /\ Len(pld.data) > 0
    /\ pld.data[1].items[1]._type = ptype

\* C11: an ObjectProperty body of each of the four shapes (FF FF FF FF, the
\* eight null bytes 00 00 00 00 FF FF FF FF, a four byte index, a flag
\* followed by an NT path) is parsed and written back as the same bytes,
\* and the size declared in the header is the length of the body written.
C11_ObjectBodyRoundTrips ==
    FirstAsParsed(S_ObjectProperty)
        => /\ ValueBytes(pld.data[1].items[1]) = FirstBody(file.bytes)
           /\ DeclaredSize(pld.data[1].items[1]) = Len(ValueBytes(pld.data[1].items[1]))

\* The trailing bytes _load read from the input file.
TrailingRead == _load(file.bytes).obj.trailing_data

\* C12: the trailing region is preserved for every length, 0 and lengths
\* other than 20 included: after load -> save, and after load -> to_dict ->
\* from_dict -> save, the file written holds the header, the property set
\* and then exactly the trailing bytes that were read.
C12_TrailingIsPreserved ==
    (pc = "saved" /\ saved = "ok" /\ file.class \in {"wf", "trail"} /\ log.edits = 0)
        => disk = SubSeq(disk, 1, PropStart) \o _serialize_properties(pld.data, TRUE).out
                      \o TrailingRead

\* C13: loading a file whose version field is not 1 raises ASAParseError
\* before any property is parsed: the load fails and the object holds no
\* property tree, whatever properties the file holds.
C13_OtherVersionIsRejected ==
    (pc \notin {"start", "verified"} /\ file.class = "version")
        => /\ pc = "failed"
           /\ _load(file.bytes).status = "version"
           /\ pld.data = <<>>

\* A file of version 2 that holds the property A was loaded.
C13_Witness ==
    /\ pc = "failed"
    /\ file.bytes = InHeader(2) \o IntA \o InNT(S_None)
    /\ pld.data = <<>>

\* The properties of a tree that hold one array of structs with its elements.
StructArrayAt(props) ==
    {i \in ArrayAt(props) : /\ props[i].items[1]._child_type = S_StructProperty
                            /\ props[i].items[1].value.t = "list"}

RECURSIVE Joined(_, _)
\* The property sets elems, each written with its None, and sep in each gap.
Joined(elems, sep) ==
    IF Len(elems) = 0 THEN <<>>
    ELSE _serialize_properties(elems[1], TRUE).out
             \o (IF Len(elems) > 1 THEN sep \o Joined(Tail(elems), sep) ELSE <<>>)

\* The struct array e stored under name has the flag the parse gave to orig,
\* its elements are written with a separator in every gap or in none, and,
\* the array being the first property of the file, as the bytes read.
SeparatorsKept(i, name, e, orig) ==
    /\ e._has_sep = orig._has_sep
    /\ file.bytes \in FilesOf(SepArray) => e._has_sep
    /\ file.bytes \in FilesOf(PlainArray) => ~e._has_sep
    /\ _serialize_array_elements(e._child_type, e.value, e._has_sep).out
           = Joined(e.value.v, IF e._has_sep THEN Zeros(4) ELSE <<>>)
    /\ i = 1 => _write_asa_property(Writer, name, e).out
                    = Take(file.bytes, PropStart,
                           Len(_write_asa_property(Writer, name, e).out))

\* C14: the _has_sep flag of an array of structs, decided at parse, is left
\* unchanged by recalculate_sizes and by the document round trip; the
\* serializer writes four zero bytes between consecutive elements when the
\* flag is true and nothing when it is false, so that an array parsed with
\* either pattern is written back as the bytes read.
C14_SeparatorsAreKept ==
    (pc = "loaded" /\ file.class \in {"wf", "variant"} /\ log.edits = 0)
        => \A i \in StructArrayAt(pld.data) :
               SeparatorsKept(i, pld.data[i].name, pld.data[i].items[1],
                              _load(file.bytes).obj.data[i].items[1])

\* An array of three structs with separators was loaded, recalculated and
\* rebuilt from its document.
C14_Witness ==
    /\ pc = "loaded" /\ file.bytes \in FilesOf(SepArray)
    /\ log.recalc /\ log.json /\ log.edits = 0
    /\ 1 \in StructArrayAt(pld.data)
    /\ Len(pld.data[1].items[1].value.v) = 3
    /\ pld.data[1].items[1]._has_sep

\* An array of three structs without separators was loaded.
C14_WitnessPlain ==
    /\ pc = "loaded" /\ file.bytes \in FilesOf(PlainArray)
    /\ 1 \in StructArrayAt(pld.data)
    /\ Len(pld.data[1].items[1].value.v) = 3
    /\ ~pld.data[1].items[1]._has_sep

\* The struct e, read with the declared size orig, was written by save as
\* its children and zero bytes only, orig bytes in all, if the children and
\* the 9-byte None exceed orig.
PaddedToOriginal(e, orig, no_none) ==
    (orig > 0 /\ Len(e.data) > 0 /\ Len(no_none) + Len(_NONE_BYTES) > orig)
        => /\ StructInnerBytes(e.data, e.raw, e._size).v
                  = no_none \o Zeros(orig - Len(no_none))
           /\ Len(StructInnerBytes(e.data, e.raw, e._size).v) = orig

\* C15: a StructProperty whose original _size is positive and whose children,
\* serialized without a terminator, plus the 9-byte None would exceed _size
\* is written as the child bytes followed by zero bytes only, and the length
\* of that body, the data_size written, is the original _size exactly.
C15_StructKeepsOriginalSize ==
    (pc = "saved" /\ saved = "ok" /\ file.class \in {"wf", "variant"} /\ ~log.json)
        => \A i \in StructAt(pld.data) :
               PaddedToOriginal(pld.data[i].items[1],
                                _load(file.bytes).obj.data[i].items[1]._size,
                                _serialize_properties(pld.data[i].items[1].data, FALSE).out)

\* The struct e holds the child S and nothing else, and its body is written
\* as S followed by k zero bytes.
ChildAndPadding(e, k) ==
    /\ Len(e.data) = 1
    /\ e.data[1].name = <<83>>
    /\ StructInnerBytes(e.data, e.raw, e._size).v = StrS \o Zeros(k)

\* C16: a StructProperty whose body is its child properties followed by k
\* zero bytes and no None terminator (1 <= k <= 8) is parsed to a data set
\* holding exactly those children, and is written back as the child bytes
\* followed by k zero bytes.
C16_PaddedStructRoundTrips ==
    (pc = "loaded" /\ log.edits = 0 /\ ~log.json)
        => \A k \in Paddings \ {0} :
               file.bytes \in FilesOf(PaddedStruct(k))
                   => /\ 1 \in StructAt(pld.data)
                      /\ ChildAndPadding(pld.data[1].items[1], k)

\* Whether the entry e keeps its payload as raw: a map, or a set of another
\* element type than NameProperty.
KeepsRaw(e) ==
    \/ e._type = S_MapProperty
    \/ e._type = S_SetProperty /\ e._elem_type # S_NameProperty

\* The property bytes out are those at the start of the property list of the
\* input file, and end with the data_size Len(raw), the tag and raw.
RawWritten(out, raw) ==
    /\ out = Take(file.bytes, PropStart, Len(out))
    /\ Len(out) >= Len(raw) + 5
    /\ SubSeq(out, Len(out) - Len(raw) + 1, Len(out)) = raw
    /\ SubSeq(out, Len(out) - Len(raw) - 4, Len(out) - Len(raw) - 1) = LE(Len(raw), 4)

\* C17: the payload of every MapProperty and of every SetProperty whose
\* element type is not NameProperty is kept as raw and written verbatim with
\* a data_size equal to its length, so that the property is written back as
\* the bytes read, also after to_dict/from_dict, where raw travels as hex.
C17_RawPayloadRoundTrips ==
    (pc = "loaded" /\ file.class = "wf" /\ log.edits = 0 /\ Len(pld.data) > 0
         /\ Len(pld.data[1].items) = 1 /\ KeepsRaw(pld.data[1].items[1]))
        => /\ pld.data[1].items[1].raw.t = "bytes"
           /\ RawWritten(_write_asa_property(Writer, pld.data[1].name,
                                             pld.data[1].items[1]).out,
                         pld.data[1].items[1].raw.v)
           /\ json # <<>> => json[1].data[1].items[1].raw
                                 = VStr(Hex(pld.data[1].items[1].raw.v))

\* A map with a payload of 8 bytes was loaded and rebuilt from its document.
C17_Witness ==
    /\ pc = "loaded" /\ file.class = "wf" /\ log.json /\ log.edits = 0
    /\ Len(pld.data) > 0
    /\ pld.data[1].items[1]._type = S_MapProperty
    /\ pld.data[1].items[1].raw = VBytes(Zeros(8))

\* The bytes of a BoolProperty at the start of the property list of the file
\* b, pair being the stream after its name and type: the pair and the index
\* as read, a size field of 0 and the byte read from the tag slot.
BoolAsRead(b, pair) ==
    Take(b, PropStart, (pair.pos - PropStart) + 4) \o Zeros(4) \o Take(b, pair.pos + 8, 1)

\* C18: every BoolProperty entry has _size 0 after parse and after
\* recalculate_sizes, whatever size the file declared; the serializer
\* writes a size field of 0 and no value body, and the byte it writes in the
\* tag slot is the byte read at parse, for every value of that byte.
C18_BoolKeepsItsByte ==
    (pc = "loaded" /\ file.class \in {"wf", "variant", "malformed"} /\ log.edits = 0
         /\ Len(pld.data) > 0 /\ Len(pld.data[1].items) = 1
         /\ pld.data[1].items[1]._type = S_BoolProperty)
        => /\ pld.data[1].items[1]._size = 0
           /\ _write_asa_property(Writer, pld.data[1].name, pld.data[1].items[1]).out
                  = BoolAsRead(file.bytes, _read_asa_pair(file.bytes, Stream(PropStart)))

\* A BoolProperty whose byte is 255 was loaded and recalculated.
C18_Witness ==
    /\ pc = "loaded" /\ log.recalc /\ log.edits = 0
    /\ file.bytes \in FilesOf(InBool(<<70>>, 0, 255))
    /\ pld.data[1].items[1]._type = S_BoolProperty
    /\ pld.data[1].items[1].value = VInt(255)

\* _write_nt_string writes _nt_string_byte_size(s) bytes for the ASCII
\* string s, 4 for the empty one and 4 + len(s) + 1 otherwise, from which
\* _safe_read_nt_string reads s, consuming all of them.
NTSymmetric(s, w) ==
    IsAscii(s)
        => /\ w.ok
           /\ _nt_string_byte_size(s) = [ok |-> TRUE, v |-> Len(w.out)]
           /\ Len(w.out) = IF Len(s) = 0 THEN 4 ELSE 4 + Len(s) + 1
           /\ _safe_read_nt_string(w.out, Stream(0)).ok
           /\ _safe_read_nt_string(w.out, Stream(0)).v = s
           /\ _safe_read_nt_string(w.out, Stream(0)).pos = Len(w.out)

\* The string r.v read from the offset pos of b is written as the bytes that
\* were read.
NTRewritten(b, pos, r) ==
    r.ok => _write_nt_string(Writer, r.v) = [ok |-> TRUE, out |-> Take(b, pos, r.pos - pos)]

\* C19: for every ASCII string s, _write_nt_string emits exactly
\* _nt_string_byte_size(s) bytes (4 for the empty string, 4 + len(s) + 1
\* otherwise) and _safe_read_nt_string on those bytes returns s and consumes
\* them all; conversely, for every NT-string encoding on disk, writing the
\* string that was read reproduces the bytes that were read.
C19_NTStringSymmetry ==
    (pc = "loaded" /\ file.class \in {"wf", "variant"} /\ ~log.json /\ Len(pld.data) > 0
         /\ pld.data[1].items[1]._type = S_StrProperty
         /\ pld.data[1].items[1].value.t = "str")
        => /\ NTSymmetric(pld.data[1].items[1].value.v,
                          _write_nt_string(Writer, pld.data[1].items[1].value.v))
           /\ NTRewritten(file.bytes, FirstHeader(file.bytes).pos,
                          _safe_read_nt_string(file.bytes, FirstHeader(file.bytes)))

\* The header of the array that is the first property of the file b.
FirstArrayHeader(b) == _read_asa_array_header(b, _read_asa_pair(b, Stream(PropStart)))

\* The array after the header h was parsed to r without an exception, and
\* the stream is at the end of the declared payload.
AtPayloadEnd(h, r) == (h.ok /\ r.ok) => r.pos = h.pos + (h.v.data_size - 4)

\* C20: after parsing any ArrayProperty, of any child type and any length,
\* 0 included, the stream position is the payload start plus data_size - 4,
\* also when the elements read occupy fewer or more bytes than the declared
\* payload.
C20_ArrayParseEndsAtPayloadEnd ==
    (pc = "loaded"
         /\ _read_asa_pair(file.bytes, Stream(PropStart)).v.type_name = S_ArrayProperty)
        => AtPayloadEnd(FirstArrayHeader(file.bytes),
                        ArrayValue(file.bytes, FirstArrayHeader(file.bytes)))

\* The header of the struct that is the first property of the file b.
FirstStructHeader(b) == _read_asa_struct_header(b, _read_asa_pair(b, Stream(PropStart)))

\* The property bytes out end with the data_size Len(raw), the tag byte and
\* raw.
WrittenVerbatim(out, raw) ==
    /\ Len(out) >= Len(raw) + 5
    /\ SubSeq(out, Len(out) - Len(raw) + 1, Len(out)) = raw
    /\ SubSeq(out, Len(out) - Len(raw) - 4, Len(out) - Len(raw) - 1) = LE(Len(raw), 4)

\* The struct after the header h, of a declared size that is not negative,
\* was parsed to r: the stream is at the end of the declared body, a body
\* without properties is kept whole as raw, and raw is written verbatim.
StructAsDeclared(b, h, r) ==
    (h.ok /\ r.ok /\ h.v.data_size >= 0)
        => /\ r.pos = h.pos + h.v.data_size
           /\ (Len(r.entry.data) = 0 /\ h.v.data_size > 0)
                  => /\ r.entry.raw.t = "bytes"
                     /\ Len(r.entry.raw.v) = h.v.data_size
                     /\ r.entry.raw.v = SubSeq(b, h.pos + 1, h.pos + h.v.data_size)
           /\ (Len(r.entry.data) = 0 /\ r.entry.raw.t = "bytes")
                  => WrittenVerbatim(_write_asa_property(Writer, <<84>>, r.entry).out,
                                     r.entry.raw.v)

\* Whether the first property of the loaded file is of the type ptype.
FirstIs(ptype) ==
    /\ pc = "loaded"
    /\ _read_asa_pair(file.bytes, Stream(PropStart)).ok
    /\ _read_asa_pair(file.bytes, Stream(PropStart)).v.type_name = ptype

\* C21: after parsing a StructProperty with data_size >= 0 the stream
\* position is the body start plus data_size; when the nested parse returned
\* no property and data_size > 0 the entry's raw holds exactly the data_size
\* body bytes, and the serializer writes such an entry's raw verbatim with
\* data_size equal to its length.
C21_StructBodyIsDeclaredSize ==
    FirstIs(S_StructProperty)
        => StructAsDeclared(file.bytes, FirstStructHeader(file.bytes),
                            StructValue(file.bytes, FirstStructHeader(file.bytes)))

\* The set parse_asa_properties returns for the properties good on their own.
ParsedAlone(good) == parse_asa_properties(InFile(good, <<>>), PropStart, FALSE, 0).props

\* The set bounded by the body of the struct after the header h.
BodySet(b, h) == parse_asa_properties(b, h.pos, TRUE, h.pos + h.v.data_size)

\* The bounded parse returned inner: the properties good and nothing of the
\* one that raised, with the stream at data_end.
OnlyComplete(inner, data_end, good) ==
    /\ inner.ok /\ ~inner.hang
    /\ inner.props = ParsedAlone(good)
    /\ inner.pos = data_end

\* The array of one struct after the header h was parsed to r: its element
\* holds the properties good, and the stream is at the end of the payload.
OnlyCompleteElement(h, r, good) ==
    /\ h.ok /\ r.ok
    /\ r.entry.value = VList(<<ParsedAlone(good)>>)
    /\ r.pos = h.pos + (h.v.data_size - 4)

NegativeStructFirst(b) ==
    /\ _read_asa_pair(b, Stream(PropStart)).ok
    /\ _read_asa_pair(b, Stream(PropStart)).v.type_name = S_StructProperty
    /\ FirstStructHeader(b).ok
    /\ FirstStructHeader(b).v.data_size < 0

\* C23: the verifier records an error for every property whose declared
\* data_size is negative, whatever its type: on a file holding a struct, an
\* array, a map, a set or a simple property of a negative size, _verify_file
\* returns with at least one error recorded.
C23_NegativeSizeIsAnError ==
    (pc = "verified" /\ (file.class = "negative" \/ NegativeStructFirst(file.bytes)))
        => /\ verdict.status = "ok"
           /\ Len(verdict.errors) > 0
           /\ ~verdict.result

\* C24: for every input of at least 50 bytes, one cut off inside the
\* envelope or inside a property's sub-header included, _verify_file raises
\* no exception, and it returns False whenever the envelope or a property's
\* sub-header or body extends past the end of the file.
C24_VerifyNeverRaises ==
    (pc = "verified" /\ Len(file.bytes) >= 50)
        => /\ verdict.status # "error"
           /\ file.class = "cut" => (verdict.status = "ok" /\ ~verdict.result)

\* Whether an error of the kind kind was recorded by the verification of the
\* input file.
Recorded(kind) == \E i \in 1..Len(verdict.errors) : verdict.errors[i] = kind

\* The input file, whose properties after the first are well-formed, was
\* verified, and its first property is of the type ptype.
VerifiedFirst(ptype) ==
    /\ pc = "verified" /\ verdict.status = "ok"
    /\ file.class \in {"wf", "variant", "width", "malformed"}
    /\ _read_asa_pair(file.bytes, Stream(PropStart)).ok
    /\ _read_asa_pair(file.bytes, Stream(PropStart)).v.type_name = ptype

\* The array header h is that of a fixed-width child type: whether the
\* payload declared is not length elements of that width.
PayloadMismatch(h) == h.length * FixedWidth(h.child_type) # h.data_size - 4

\* C25: the verifier records an error whenever a fixed-width simple property
\* declares a size other than its width, and whenever an array of a
\* fixed-width child type has length x width different from its payload
\* size data_size - 4, for every length >= 0; it records neither error when
\* the sizes match.
C25_FixedWidthsAreChecked ==
    /\ \A t \in FixedTypes :
          VerifiedFirst(t)
              => (Recorded("fixed_size") <=> FirstHeader(file.bytes).v.size # FixedWidth(t))
    /\ (VerifiedFirst(S_ArrayProperty)
            /\ FirstArrayHeader(file.bytes).v.child_type \in FixedTypes
            /\ FirstArrayHeader(file.bytes).v.length >= 0)
           => (Recorded("array_bytes") <=> PayloadMismatch(FirstArrayHeader(file.bytes).v))

\* The pair the verifier reads at the start of the property list of data.
FirstPair(data) == _read_pair(data, PropStart, Len(data))

\* What the handler of the first property of data returns.
FirstHandled(data) ==
    handler(data, FirstPair(data).ptype, Verifier(FirstPair(data).pos))

\* The handler returned h for a property that started at start: at an
\* offset past that start.
Advances(h, start) == (h.ok /\ ~h.hang) => h.pos > start

\* C26: _Verifier.verify_properties terminates on every input: every handler
\* returns an offset greater than the offset at which the property it
\* handled started, also for a struct, a map or a set of a negative size.
C26_VerifyTerminates ==
    pc = "verified"
        => /\ verdict.status # "hang"
           /\ (FirstPair(file.bytes).ok /\ ~FirstPair(file.bytes).none
                   /\ FirstPair(file.bytes).name # S_None)
                  => Advances(FirstHandled(file.bytes), PropStart)

\* The first property of the file b as parse_asa_properties parses it.
FirstParsed(b) ==
    ParseProperty(b, _read_asa_pair(b, Stream(PropStart)),
                  _read_asa_pair(b, Stream(PropStart)).v.type_name)

\* C27: for every well-formed property of each recognized type, the end
\* offset the verifier's handler returns is the stream position the parser
\* reaches after the same property, no error being recorded; in particular
\* both read the same MapProperty sub-header fields.
C27_VerifierFollowsParser ==
    (pc = "verified" /\ file.class = "wf" /\ Len(_load(file.bytes).obj.data) > 0)
        => /\ FirstPair(file.bytes).ok /\ ~FirstPair(file.bytes).none
           /\ FirstPair(file.bytes).ptype
                  = _read_asa_pair(file.bytes, Stream(PropStart)).v.type_name
           /\ FirstHandled(file.bytes).ok
           /\ FirstHandled(file.bytes).errors = <<>>
           /\ FirstHandled(file.bytes).pos = FirstParsed(file.bytes).pos

\* recalculate_sizes called again on the object its first call left.
RecalculatedTwice(obj) == recalculate_sizes(recalculate_sizes(obj).v)

\* C28: recalculate_sizes is idempotent: on every tree, loaded or edited, a
\* second call right after the first changes no _size and no length field
\* (nor anything else).
C28_RecalculateIsIdempotent ==
    (pc = "loaded" /\ recalculate_sizes(pld).ok)
        => RecalculatedTwice(pld) = recalculate_sizes(pld)

\* The elements of an array were edited, and the first call of
\* recalculate_sizes changes the tree.
C28_Witness ==
    /\ pc = "loaded" /\ log.elems /\ ~log.recalc
    /\ recalculate_sizes(pld).ok
    /\ recalculate_sizes(pld).v # pld
    /\ RecalculatedTwice(pld).ok

RECURSIVE SizesErased(_)
RECURSIVE EntrySizesErased(_)
\* The property set props with every _size and length field set to 0, in
\* the structs and the struct arrays it holds too.
SizesErased(props) ==
    [i \in 1..Len(props) |->
        [name |-> props[i].name,
         items |-> [j \in 1..Len(props[i].items) |->
                       EntrySizesErased(props[i].items[j])]]]

\* The entry e with its _size and length set to 0, and those below it.
EntrySizesErased(e) ==
    IF e._type = S_StructProperty
    THEN [e EXCEPT !._size = 0, !.data = SizesErased(@)]
    ELSE IF e._type = S_ArrayProperty
    THEN [e EXCEPT !._size = 0, !.length = 0,
                   !.value = IF e._child_type = S_StructProperty /\ e.value.t = "list"
                             THEN VList([k \in 1..Len(e.value.v) |->
                                            SizesErased(e.value.v[k])])
                             ELSE @]
    ELSE [e EXCEPT !._size = 0]

\* The object after is the object before but for _size and length fields.
OnlySizesChanged(before, after) ==
    /\ SizesErased(after.data) = SizesErased(before.data)
    /\ [after EXCEPT !.data = <<>>] = [before EXCEPT !.data = <<>>]

\* C29: recalculate_sizes, and therefore save, changes only _size and length
\* fields of the tree: property names and their order, _type, _index, _tag,
\* _extra, _has_sep, values, element lists and raw bytes are as before the
\* call, whether it returns or raises.
C29_OnlySizesChange ==
    pc = "loaded"
        => /\ OnlySizesChanged(pld, recalculate_sizes(pld).v)
           /\ OnlySizesChanged(pld, save(pld, disk).obj)

\* An array whose elements were edited was saved: save changed its length.
C29_Witness ==
    /\ pc = "saved" /\ saved = "ok" /\ log.elems /\ ~log.recalc
    /\ Len(pld.data) > 0
    /\ pld.data[1].items[1]._type = S_ArrayProperty
    /\ pld.data[1].items[1].length # _load(file.bytes).obj.data[1].items[1].length

\* C30: if save raises while serializing, for example on a name or a string
\* value that cannot be encoded as ASCII, the destination file keeps its
\* previous contents: it is neither truncated nor left partially written.
C30_FailedSaveKeepsFile ==
    (pc = "saved" /\ saved = "raised") => disk = Previous

=============================================================================
